---- MODULE Spec2Model ----
(***************************************************************************)
(* Model of the FAM competition bot: the competition repository           *)
(* (src/database/repositories/competition.py), the ORM rows it stores      *)
(* (src/database/models.py) and the scraping job                           *)
(* (src/scheduler/jobs.py) with the scraper classes it drives.             *)
(*                                                                         *)
(* Dates are day numbers.  Python's None is the value None.  A call that   *)
(* ends with an exception is recorded with raised = TRUE.                  *)
(***************************************************************************)
EXTENDS Integers, Sequences, FiniteSets, TLC

None == "None"

\* A Python value that is a list or None, and a nullable text column holding
\* a JSON array.
NoneList == [none |-> TRUE, items |-> <<>>]
List(s) == [none |-> FALSE, items |-> s]

\* ---------------------------------------------------------------- bounds
MaxCompetitions == 3
MaxEventRows == 4

\* ---------------------------------------------------------------- input domains
PdfUrls == {"https://fam/a.pdf", "https://fam/b.pdf"}
CompetitionNames == {"Copa", "Trofeo"}

EventA == [discipline |-> "60", event_type |-> "carrera", sex |-> "M",
           scheduled_time |-> "10:00", category |-> "Senior"]
EventB == [discipline |-> "Altura", event_type |-> "concurso", sex |-> "F",
           scheduled_time |-> None, category |-> ""]

VARIABLES competitions, events, nextCompetitionId, nextEventId, call,
          notificationLogs, dialect

\* ---------------------------------------------------------------- helpers
Range(s) == {s[i] : i \in DOMAIN s}

RECURSIVE Insert(_, _)
Insert(x, s) ==
    IF s = <<>> THEN <<x>>
    ELSE IF x <= Head(s) THEN <<x>> \o s
    ELSE <<Head(s)>> \o Insert(x, Tail(s))

\* Python sorted() on a list of dates: ascending, duplicates kept.
RECURSIVE Sorted(_)
Sorted(s) == IF s = <<>> THEN <<>> ELSE Insert(Head(s), Sorted(Tail(s)))

\* Python sorted(set(...)): ascending, duplicates removed.
RECURSIVE SortedSet(_)
SortedSet(S) ==
    IF S = {} THEN <<>>
    ELSE LET m == CHOOSE x \in S : \A y \in S : x <= y
         IN <<m>> \o SortedSet(S \ {m})

\* date.isoformat() and datetime.strptime(..., "%Y-%m-%d").date(): a date is
\* written as a tagged text and read back from it.
isoformat(d) == <<"iso", d>>
strptime(t) == t[2]

\* ---------------------------------------------------------------- ORM rows
\* Competition.fechas_adicionales_list setter: the column value written.
fechas_adicionales_setter(dates) ==
    IF dates.items = <<>> THEN NoneList
    ELSE LET srt == Sorted(dates.items)
         IN List([i \in 1..Len(srt) |-> isoformat(srt[i])])

\* Competition.fechas_adicionales_list getter.
fechas_adicionales_list(c) ==
    IF c.fechas_adicionales.none THEN <<>>
    ELSE LET texts == c.fechas_adicionales.items
         IN Sorted([i \in 1..Len(texts) |-> strptime(texts[i])])

\* Competition.todas_las_fechas.
todas_las_fechas_with_repeats(c) ==
    Sorted(<<c.competition_date>> \o fechas_adicionales_list(c))

todas_las_fechas(c) ==
    SortedSet({c.competition_date} \cup Range(fechas_adicionales_list(c)))

NewCompetitionWithoutEnrollment(id, a) ==
    [id |-> id, pdf_url |-> a.pdf_url, pdf_hash |-> a.pdf_hash, name |-> a.name,
     competition_date |-> a.competition_date, location |-> a.location,
     has_modifications |-> a.has_modifications,
     competition_type |-> a.competition_type,
     enrollment_url |-> None, fechas_adicionales |-> NoneList]

\* Competition(**kwargs) as BaseRepository.create builds it: the column
\* fechas_adicionales is not among the keyword arguments and stays NULL.
NewCompetition(id, a) ==
    [id |-> id, pdf_url |-> a.pdf_url, pdf_hash |-> a.pdf_hash, name |-> a.name,
     competition_date |-> a.competition_date, location |-> a.location,
     has_modifications |-> a.has_modifications,
     competition_type |-> a.competition_type,
     enrollment_url |-> a.enrollment_url, fechas_adicionales |-> NoneList]

\* Event(competition_id=..., **event_data) for each element of the list, with
\* the ids the autoincrement key hands out.

NewEvents(competition_id, event_list, first_id) ==
    {[id |-> first_id + i - 1, competition_id |-> competition_id,
      data |-> event_list.items[i]] : i \in 1..Len(event_list.items)}

\* ---------------------------------------------------------------- repository
\* The tables as one session sees them.
DB == [competitions |-> competitions, events |-> events,
       nextCompetitionId |-> nextCompetitionId, nextEventId |-> nextEventId,
       notificationLogs |-> notificationLogs]

\* The engines the application is configured for (config.py): SQLite, where
\* no connection turns foreign keys on, and PostgreSQL.
Dialects == {"sqlite", "postgresql"}
ForeignKeys(d) == d = "postgresql"

\* The notification logs of the given events (Event.notification_logs).
LogsOf(logs, evs) == {l \in logs : l.event_id \in {e.id : e \in evs}}

\* CompetitionRepository.get_by_pdf_url_and_name: the rows the query selects.
get_by_pdf_url_only(rows, pdf_url, name) ==
    {c \in rows : c.pdf_url = pdf_url}

get_by_pdf_url_and_name(rows, pdf_url, name) ==
    {c \in rows : c.pdf_url = pdf_url /\ c.name = name}

\* The events relationship of a competition (selectinload).
EventsOf(evs, competition_id) == {e \in evs : e.competition_id = competition_id}

\* BaseRepository.update with the keyword arguments upsert_with_hash passes.
update(existing, a) ==
    [existing EXCEPT !.pdf_hash = a.pdf_hash, !.name = a.name,
                     !.competition_date = a.competition_date,
                     !.location = a.location,
                     !.has_modifications = a.has_modifications,
                     !.competition_type = a.competition_type,
                     !.enrollment_url = a.enrollment_url]

\* What a call leaves behind: the tables, whether it raised, and the
\* (competition, flag) pair it returned.
Outcome(db, raised, id, flag) ==
    [db |-> db, raised |-> raised, id |-> id, flag |-> flag]

\* The comparison that decides between "sin cambios" and "actualizar".
UnchangedHashOnly(existing, a) == existing.pdf_hash = a.pdf_hash

Unchanged(existing, a) ==
    /\ existing.pdf_hash = a.pdf_hash
    /\ existing.enrollment_url = a.enrollment_url

\* upsert_with_hash, first branch: the pair is stored, hash and enrollment
\* URL are the stored ones.
UpsertUnchangedWritingDates(db, a, existing) ==
    Outcome([db EXCEPT !.competitions = (@ \ {existing}) \cup
                {[existing EXCEPT !.fechas_adicionales =
                      fechas_adicionales_setter(a.fechas_adicionales)]}],
            FALSE, existing.id, FALSE)

UpsertUnchanged(db, a, existing) == Outcome(db, FALSE, existing.id, FALSE)

\* upsert_with_hash, second branch: the pair is stored and is updated.
UpsertUpdateKeepingEvents(db, a, existing) ==
    LET updated == update(existing, a)
        dated == IF ~a.fechas_adicionales.none
                 THEN [updated EXCEPT !.fechas_adicionales =
                                          fechas_adicionales_setter(a.fechas_adicionales)]
                 ELSE updated
        rows == (db.competitions \ {existing}) \cup {dated}
    IN IF ~a.events.none
       THEN Outcome([db EXCEPT !.competitions = rows,
                               !.events = @ \cup NewEvents(existing.id, a.events,
                                                           db.nextEventId),
                               !.nextEventId = @ + Len(a.events.items)],
                    FALSE, existing.id, TRUE)
       ELSE Outcome([db EXCEPT !.competitions = rows], FALSE, existing.id, TRUE)

UpsertUpdate(db, a, existing) ==
    LET updated == update(existing, a)
        dated == IF ~a.fechas_adicionales.none
                 THEN [updated EXCEPT !.fechas_adicionales =
                                          fechas_adicionales_setter(a.fechas_adicionales)]
                 ELSE updated
        rows == (db.competitions \ {existing}) \cup {dated}
    IN IF ~a.events.none
       THEN Outcome([db EXCEPT !.competitions = rows,
                               !.events = (@ \ EventsOf(@, existing.id))
                                   \cup NewEvents(existing.id, a.events,
                                                  db.nextEventId),
                               !.nextEventId = @ + Len(a.events.items),
                               !.notificationLogs =
                                   @ \ LogsOf(@, EventsOf(db.events, existing.id))],
                    FALSE, existing.id, TRUE)
       ELSE Outcome([db EXCEPT !.competitions = rows], FALSE, existing.id, TRUE)

\* upsert_with_hash, third branch: nothing stored under the pair.  The column
\* pdf_url is NOT NULL, so the INSERT of a competition without URL fails at
\* the flush inside BaseRepository.create.
UpsertCreate(db, a) ==
    IF a.pdf_url = None
    THEN Outcome(db, TRUE, 0, FALSE)
    ELSE LET created == NewCompetition(db.nextCompetitionId, a)
             dated == IF ~a.fechas_adicionales.none
                      THEN [created EXCEPT !.fechas_adicionales =
                                fechas_adicionales_setter(a.fechas_adicionales)]
                      ELSE created
             withRow == [db EXCEPT !.competitions = @ \cup {dated},
                                   !.nextCompetitionId = @ + 1]
         IN IF ~a.events.none
            THEN Outcome([withRow EXCEPT
                             !.events = @ \cup NewEvents(created.id, a.events,
                                                         db.nextEventId),
                             !.nextEventId = @ + Len(a.events.items)],
                         FALSE, created.id, TRUE)
            ELSE Outcome(withRow, FALSE, created.id, TRUE)

\* CompetitionRepository.upsert_with_hash.  scalar_one_or_none raises when
\* the query selects more than one row.
upsert_with_hash(db, a) ==
    LET found == IF a.pdf_url # None
                 THEN get_by_pdf_url_and_name(db.competitions, a.pdf_url, a.name)
                 ELSE {}
    IN IF Cardinality(found) > 1
       THEN Outcome(db, TRUE, 0, FALSE)
       ELSE IF found # {}
       THEN LET existing == CHOOSE c \in found : TRUE
            IN IF Unchanged(existing, a)
               THEN UpsertUnchanged(db, a, existing)
               ELSE UpsertUpdate(db, a, existing)
       ELSE UpsertCreate(db, a)

\* The autoincrement keys stay within the rows the model provides.
WithinBounds(db) ==
    /\ db.nextCompetitionId <= MaxCompetitions + 1
    /\ db.nextEventId <= MaxEventRows + 1

\* The session's tables become those a call left behind.
Store(db) ==
    /\ competitions' = db.competitions
    /\ events' = db.events
    /\ nextCompetitionId' = db.nextCompetitionId
    /\ nextEventId' = db.nextEventId
    /\ notificationLogs' = db.notificationLogs
    /\ dialect' = dialect

\* ---------------------------------------------------------------- arguments
\* What the document of a competition contributes to a call: the hash of its
\* bytes and the fields and events read from it.  The third one is the
\* record built from the calendar row alone (no bytes, no events), the
\* fourth a call that passes other fields under the first hash and no event
\* list.
Documents ==
    {[pdf_hash |-> "h1", competition_date |-> 17, location |-> "Gallur",
      events |-> List(<<EventA>>)],
     [pdf_hash |-> "h2", competition_date |-> 18, location |-> "Madrid",
      events |-> List(<<EventB, EventA>>)],
     [pdf_hash |-> None, competition_date |-> 1, location |-> "Madrid",
      events |-> List(<<>>)],
     [pdf_hash |-> "h1", competition_date |-> 18, location |-> "Madrid",
      events |-> NoneList]}

\* What the calendar row contributes to a call.
CalendarRows ==
    {[enrollment_url |-> None, has_modifications |-> FALSE,
      competition_type |-> "PC", fechas_adicionales |-> NoneList],
     [enrollment_url |-> "https://enroll", has_modifications |-> TRUE,
      competition_type |-> None, fechas_adicionales |-> List(<<19, 18>>)],
     [enrollment_url |-> None, has_modifications |-> FALSE,
      competition_type |-> "PC", fechas_adicionales |-> List(<<>>)]}

Args(pdf_url, name, doc, row) ==
    [pdf_url |-> pdf_url, pdf_hash |-> doc.pdf_hash, name |-> name,
     competition_date |-> doc.competition_date, location |-> doc.location,
     has_modifications |-> row.has_modifications,
     competition_type |-> row.competition_type,
     enrollment_url |-> row.enrollment_url, events |-> doc.events,
     fechas_adicionales |-> row.fechas_adicionales]

FirstUrl == "https://fam/a.pdf"
FirstName == "Copa"
FirstDocument == CHOOSE d \in Documents : d.pdf_hash = "h1" /\ ~d.events.none
SecondRow == CHOOSE r \in CalendarRows : r.enrollment_url # None

\* Calls for the first identity range over every document and row; the other
\* identities and the call without URL are made with one document and row.
UpsertArgs ==
    {Args(FirstUrl, FirstName, d, r) : d \in Documents, r \in CalendarRows}
    \cup
    {Args(u, n, FirstDocument, SecondRow) :
        u \in PdfUrls \cup {None}, n \in CompetitionNames}

\* ---------------------------------------------------------------- scraper classes
\* The fields of the dataclasses of src/scraper/models.py and the
\* parameters of PDFParser.parse.  A call that passes a keyword that is not
\* among them raises TypeError; reading an attribute that was never set
\* raises AttributeError.
RawCompetitionFields ==
    {"name", "date_str", "pdf_url", "has_modifications", "location",
     "competition_type"}

ScraperCompetitionFields ==
    {"name", "competition_date", "location", "pdf_url", "pdf_hash",
     "has_modifications", "competition_type", "events"}

ParseParameters ==
    {"pdf_content", "name", "pdf_url", "has_modifications", "competition_type"}

\* The keywords of RawCompetition(...) in _parse_real_competition_row, of
\* parser.parse(...) and of Competition(...) in scraping_job.
RawCompetitionKeywords ==
    {"name", "date_str", "pdf_url", "enrollment_url", "has_modifications",
     "location", "competition_type"}

ParseKeywords ==
    {"pdf_content", "name", "pdf_url", "enrollment_url", "has_modifications",
     "competition_type"}

FallbackKeywords ==
    {"name", "competition_date", "location", "pdf_url", "enrollment_url",
     "pdf_hash", "has_modifications", "competition_type", "events"}

Accepts(parameters, keywords) == keywords \subseteq parameters

\* ---------------------------------------------------------------- calendar
ThisYear == 2026

\* A date as a day number: 31 day slots per month, counted from January of
\* ThisYear, so that day d of January of ThisYear is d.
DateOf(year, month, day) == (year - ThisYear) * 372 + (month - 1) * 31 + day

\* date.today() when the job runs.
TodayMonths == {1, 12}
TodayOf(month) == [year |-> ThisYear, month |-> month, day |-> 10]

\* get_current_and_next_months.
get_current_and_next_months(today) ==
    IF today.month = 12
    THEN <<<<12, today.year>>, <<1, today.year + 1>>>>
    ELSE <<<<today.month, today.year>>, <<today.month + 1, today.year>>>>

\* The rows of the calendar table as the site serves them: the number of td
\* cells, the text of the date cell (the days, joined by "y" when there are
\* two, and the month after the dot), the name, and the links of the
\* document and enrollment cells.
HtmlRows ==
    {[cells |-> 1, date_text |-> [days |-> <<3>>, month |-> 1], name |-> "Copa", pdf_href |-> None,
      enroll_href |-> None, style |-> None],
     [cells |-> 7, date_text |-> [days |-> <<3>>, month |-> 1], name |-> "Copa",
      pdf_href |-> "https://fam/a.pdf", enroll_href |-> None, style |-> None],
     [cells |-> 7, date_text |-> [days |-> <<17, 18>>, month |-> 1], name |-> "Trofeo",
      pdf_href |-> "https://fam/b.pdf", enroll_href |-> "https://enroll",
      style |-> "#EBFFAA"],
     [cells |-> 7, date_text |-> [days |-> <<24>>, month |-> 1], name |-> "Trofeo", pdf_href |-> None,
      enroll_href |-> None, style |-> "yellow"]}

MaxRows == 2

\* The answers to the GET of a month's calendar: a transport error, a page
\* without calendar table, or a page whose table has the given data rows,
\* each row listed once.
HttpError == [status |-> "error", table |-> FALSE, rows |-> <<>>]
NoTablePage == [status |-> "ok", table |-> FALSE, rows |-> <<>>]
CalendarPages ==
    {[status |-> "ok", table |-> TRUE, rows |-> r] :
        r \in {q \in UNION {[1..n -> HtmlRows] : n \in 0..MaxRows} :
                  \A i, j \in DOMAIN q : q[i] = q[j] => i = j}}
Responses == {HttpError, NoTablePage} \cup CalendarPages

\* WebScraper._extract_additional_dates: the "DD/MM/YYYY" texts of the days
\* after the first one; the year is the one of date.today().
extract_additional_dates(date_text, today) ==
    IF Len(date_text.days) = 2 /\ date_text.days[1] # date_text.days[2]
    THEN <<[day |-> date_text.days[2], month |-> date_text.month,
            year |-> today.year]>>
    ELSE <<>>

\* WebScraper._normalize_date: "3 enero 2026", "17-18 enero 2026".  The text
\* has no "/" in it.
normalize_date(date_text, month, year) ==
    [days |-> date_text.days, month_name |-> date_text.month, year |-> year,
     slashes |-> 0]

\* A row that has the five cells, a name and a document link.
IsCompetitionRow(row) ==
    row.cells >= 5 /\ row.name # None /\ row.pdf_href # None

\* WebScraper._parse_real_competition_row for such a row: the RawCompetition
\* it builds, with the attributes the constructor and the row parser set.
RawCompetitionOf(row, month, year, today) ==
    LET extra == extract_additional_dates(row.date_text, today)
    IN [attrs |-> RawCompetitionFields \cup
                    (IF extra # <<>> THEN {"fechas_adicionales"} ELSE {}),
        name |-> row.name,
        date_str |-> normalize_date(row.date_text, month, year),
        pdf_url |-> row.pdf_href,
        enrollment_url |-> row.enroll_href,
        has_modifications |-> FALSE,
        location |-> "Gallur",
        competition_type |-> None,
        fechas_adicionales |-> extra]

\* WebScraper.parse_calendar_html: the rows are parsed in order; the first
\* competition row whose RawCompetition(...) call is not accepted ends the
\* parse with TypeError.
RECURSIVE ParseRows(_, _, _, _, _)
ParseRows(rows, i, month, year, today) ==
    IF i > Len(rows) THEN [raised |-> FALSE, row |-> 0, entries |-> <<>>]
    ELSE IF ~IsCompetitionRow(rows[i])
         THEN ParseRows(rows, i + 1, month, year, today)
    ELSE IF ~Accepts(RawCompetitionFields, RawCompetitionKeywords)
         THEN [raised |-> TRUE, row |-> i, entries |-> <<>>]
    ELSE LET rest == ParseRows(rows, i + 1, month, year, today)
         IN [raised |-> rest.raised, row |-> rest.row,
             entries |-> IF rest.raised THEN <<>>
                         ELSE <<[row |-> i,
                                 raw |-> RawCompetitionOf(rows[i], month, year,
                                                          today)]>>
                              \o rest.entries]

parse_calendar_html(page, month, year, today) ==
    IF ~page.table THEN [raised |-> FALSE, row |-> 0, entries |-> <<>>]
    ELSE ParseRows(page.rows, 1, month, year, today)

\* WebScraper.get_competitions: a transport error and an exception of the
\* parse both leave as WebScraperError.
get_competitions(response, month, year, today) ==
    IF response.status = "error"
    THEN [raised |-> TRUE, row |-> 0, entries |-> <<>>]
    ELSE parse_calendar_html(response, month, year, today)

\* ---------------------------------------------------------------- documents
\* The bytes a download returns, calculate_pdf_hash of them, and what
\* PDFParser.parse reads from them.
PdfContents == {"pdf1", "pdf2"}

calculate_pdf_hash(content) == IF content = "pdf1" THEN "h1" ELSE "h2"

ParsedDocument(content) ==
    IF content = "pdf1"
    THEN [pdf_hash |-> "h1", competition_date |-> 17, location |-> "Gallur",
          events |-> List(<<EventA>>)]
    ELSE [pdf_hash |-> "h2", competition_date |-> 18, location |-> "Madrid",
          events |-> List(<<EventB, EventA>>)]

\* ---------------------------------------------------------------- error log
ErrorLog(error_type, text, month, year, name) ==
    [component |-> "scraper", error_type |-> error_type, text |-> text,
     month |-> month, year |-> year, name |-> name]

\* CompetitionRepository.delete_past_competitions: one DELETE statement
\* removes the rows dated before before_date.  Their events, and the
\* notification logs of those, go with them where the database enforces
\* ON DELETE CASCADE; the result is the number of competitions deleted.
delete_past_competitions(db, before_date, foreign_keys) ==
    LET past == {c \in db.competitions : c.competition_date < before_date}
        gone == {e \in db.events : e.competition_id \in {c.id : c \in past}}
    IN [db |-> IF foreign_keys
               THEN [db EXCEPT !.competitions = @ \ past,
                               !.events = @ \ gone,
                               !.notificationLogs = @ \ LogsOf(@, gone)]
               ELSE [db EXCEPT !.competitions = @ \ past],
        rowcount |-> Cardinality(past)]

\* ---------------------------------------------------------------- scraping job
VARIABLES pc, job, errorLogs, committed, parsing, users, subscriptions,
          nextSubscriptionId, svc, wanted, notify, calendar, chat

jobvars == <<pc, job, errorLogs, committed>>
extvars == <<calendar, chat>>
svcvars == <<parsing, users, subscriptions, nextSubscriptionId, svc, wanted,
             notify, extvars>>
dbvars == <<competitions, events, nextCompetitionId, nextEventId,
            notificationLogs, dialect>>
vars == <<competitions, events, nextCompetitionId, nextEventId, call,
          notificationLogs, dialect, pc, job, errorLogs, committed, parsing,
          users, subscriptions, nextSubscriptionId, svc, wanted, notify,
          calendar, chat>>

NoStats == [months_scraped |-> 0, competitions_found |-> 0,
            competitions_new |-> 0, competitions_updated |-> 0,
            competitions_deleted |-> 0, errors |-> 0]

\* stats["errors"] += 1 in the handlers of scraping_job.
CountNoError(stats) == stats

CountError(stats) == [stats EXCEPT !.errors = @ + 1]

\* A loop variable of the job: the number it holds and whether it holds it
\* as text (after "day, month, year = parts").
Number(v) == [v |-> v, text |-> FALSE]
Text(v) == [v |-> v, text |-> TRUE]

\* What the outside does to one pass over a month: whether the download and
\* the opening of the document work and what bytes come, and whether the
\* writes of the upsert and of the two error handlers work.
Environments ==
    [download_ok : BOOLEAN, content : PdfContents, opens_ok : BOOLEAN,
     db_ok : BOOLEAN, entry_log_ok : BOOLEAN, month_log_ok : BOOLEAN]

\* jobs.py 126-166 for the competition object built from the document or
\* from the row: the additional dates are read into the loop variables
\* month and year, then the upsert runs.  The result is the state the loop
\* body leaves and whether it raised.
SaveEntry(js, raw, competition, env) ==
    LET has_dates == "fechas_adicionales" \in raw.attrs
                        /\ raw.fechas_adicionales # <<>>
        parts == raw.fechas_adicionales
        last == parts[Len(parts)]
        shadowed == IF has_dates
                    THEN [js EXCEPT !.job.month = Text(last.month),
                                    !.job.year = Text(last.year)]
                    ELSE js
        fechas == IF has_dates
                  THEN List([i \in 1..Len(parts) |->
                               DateOf(parts[i].year, parts[i].month, parts[i].day)])
                  ELSE NoneList
        a == [pdf_url |-> competition.pdf_url, pdf_hash |-> competition.pdf_hash,
              name |-> competition.name,
              competition_date |-> competition.competition_date,
              location |-> competition.location,
              has_modifications |-> competition.has_modifications,
              competition_type |-> competition.competition_type,
              enrollment_url |-> competition.enrollment_url,
              events |-> competition.events, fechas_adicionales |-> fechas]
        r == upsert_with_hash(js.db, a)
    IN IF "enrollment_url" \notin competition.attrs
       THEN [js |-> shadowed, raised |-> TRUE, flag |-> FALSE,
             error_type |-> "AttributeError"]
       ELSE IF ~env.db_ok \/ r.raised
       THEN [js |-> shadowed, raised |-> TRUE, flag |-> FALSE,
             error_type |-> "SQLAlchemyError"]
       ELSE [js |-> [shadowed EXCEPT
                        !.db = r.db,
                        !.job.stats.competitions_new = @ + (IF r.flag THEN 1 ELSE 0)],
             raised |-> FALSE, flag |-> r.flag, error_type |-> None]

\* jobs.py 75-124: the competition object of an entry.  The document is
\* downloaded and parsed when the link is a PDF; every exception of that is
\* swallowed and the competition is then built from the row.
EntryCompetition(js, raw, env) ==
    LET is_pdf == raw.pdf_url # None
        downloaded == is_pdf /\ env.download_ok
        parsed == /\ downloaded
                  /\ "enrollment_url" \in raw.attrs
                  /\ Accepts(ParseParameters, ParseKeywords)
                  /\ env.opens_ok
        doc == ParsedDocument(env.content)
    IN IF parsed
       THEN [raised |-> FALSE, error_type |-> None, parsed |-> TRUE,
             competition |->
                [attrs |-> ScraperCompetitionFields, name |-> raw.name,
                 competition_date |-> doc.competition_date,
                 location |-> doc.location, pdf_url |-> raw.pdf_url,
                 pdf_hash |-> doc.pdf_hash,
                 has_modifications |-> raw.has_modifications,
                 competition_type |-> raw.competition_type,
                 enrollment_url |-> None, events |-> doc.events]]
       ELSE IF js.job.year.text \/ js.job.month.text
       THEN [raised |-> TRUE, error_type |-> "TypeError", parsed |-> FALSE,
             competition |-> None]
       ELSE IF "enrollment_url" \notin raw.attrs
       THEN [raised |-> TRUE, error_type |-> "AttributeError",
             parsed |-> FALSE, competition |-> None]
       ELSE IF ~Accepts(ScraperCompetitionFields, FallbackKeywords)
       THEN [raised |-> TRUE, error_type |-> "TypeError", parsed |-> FALSE,
             competition |-> None]
       ELSE [raised |-> FALSE, error_type |-> None, parsed |-> FALSE,
             competition |->
                [attrs |-> FallbackKeywords, name |-> raw.name,
                 competition_date |-> DateOf(js.job.year.v, js.job.month.v, 1),
                 location |-> IF raw.location # None THEN raw.location
                              ELSE "Madrid",
                 pdf_url |-> raw.pdf_url,
                 pdf_hash |-> IF downloaded THEN calculate_pdf_hash(env.content)
                              ELSE None,
                 has_modifications |-> raw.has_modifications,
                 competition_type |-> raw.competition_type,
                 enrollment_url |-> raw.enrollment_url, events |-> List(<<>>)]]

\* jobs.py 73-183: one pass of the loop body.  An exception of the pass is
\* counted and written to the error log; when that write fails the
\* exception of the write leaves the loop (propagating).
ProcessEntry(js, mi, entry, env) ==
    LET key == <<mi, entry.row>>
        built == EntryCompetition(js, entry.raw, env)
        started == [js EXCEPT !.job.processed = @ \cup {key},
                              !.job.parsed = @ \cup (IF built.parsed THEN {key}
                                                 ELSE {})]
        saved == IF built.raised
                 THEN [js |-> started, raised |-> TRUE, flag |-> FALSE,
                       error_type |-> built.error_type]
                 ELSE SaveEntry(started, entry.raw, built.competition, env)
        counted == [saved.js EXCEPT !.job.stats = CountError(@),
                                    !.job.failed = @ \cup {key}]
    IN IF ~saved.raised
       THEN [saved.js EXCEPT !.job.upserted = @ \cup {key},
                             !.job.changed = @ \cup (IF saved.flag THEN {key}
                                                     ELSE {})]
       ELSE IF env.entry_log_ok
       THEN [counted EXCEPT !.logs = Append(@,
                 ErrorLog(saved.error_type, "Error procesando competicion",
                          0, 0, entry.raw.name))]
       ELSE [counted EXCEPT !.job.propagating = TRUE]

RECURSIVE ProcessEntries(_, _, _, _, _)
ProcessEntries(js, mi, entries, i, env) ==
    IF i > Len(entries) \/ js.job.propagating THEN js
    ELSE ProcessEntries(ProcessEntry(js, mi, entries[i], env), mi, entries,
                        i + 1, env)

\* jobs.py 66-192: one pass of the loop over the months for the answer the
\* site gives.  An exception of the calendar, or one that left the loop over
\* the entries, is counted and written to the error log; when that write
\* fails the exception of the write leaves the loop over the months.
ScrapeOneMonth(js0, mi, response, env) ==
    LET target == js0.job.months[mi]
        got == get_competitions(response, target[1], target[2], js0.job.today)
        js == [js0 EXCEPT
                  !.job.month = Number(target[1]), !.job.year = Number(target[2]),
                  !.job.fetched = Append(@, [response |-> response,
                                         raised |-> got.raised]),
                  !.job.failed = @ \cup (IF got.row # 0 THEN {<<mi, got.row>>}
                                     ELSE {})]
        listed == [js EXCEPT !.job.stats.months_scraped = @ + 1,
                             !.job.stats.competitions_found = @ + Len(got.entries)]
        looped == IF got.raised THEN [js EXCEPT !.job.propagating = TRUE]
                  ELSE ProcessEntries(listed, mi, got.entries, 1, env)
        counted == [looped EXCEPT !.job.stats = CountError(@),
                                  !.job.aborted = @ \cup {mi},
                                  !.job.propagating = FALSE]
    IN IF ~looped.job.propagating THEN looped
       ELSE IF env.month_log_ok
       THEN [counted EXCEPT !.logs = Append(@,
                 ErrorLog(IF got.raised THEN "WebScraperError"
                          ELSE "SQLAlchemyError",
                          "Error scrapeando mes", looped.job.month.v, looped.job.year.v,
                          None))]
       ELSE [counted EXCEPT !.job.propagating = TRUE]

\* The job before a run: no target months, nothing fetched.
IdleJob ==
    [stats |-> NoStats, today |-> TodayOf(1), months |-> <<>>, mi |-> 0,
     month |-> Number(0), year |-> Number(0), fetched |-> <<>>,
     processed |-> {}, parsed |-> {}, upserted |-> {}, changed |-> {},
     failed |-> {}, aborted |-> {}, cleanup |-> "none", propagating |-> FALSE,
     fatal |-> "none"]

\* What the last commit made durable.
Snapshot(rows, evs, notified, logs) ==
    [competitions |-> rows, events |-> evs, notificationLogs |-> notified,
     errorLogs |-> logs]

\* session.rollback(): the tables go back to the last commit; the keys
\* already handed out are not handed out again.
Rollback ==
    /\ competitions' = committed.competitions
    /\ events' = committed.events
    /\ notificationLogs' = committed.notificationLogs
    /\ errorLogs' = committed.errorLogs
    /\ UNCHANGED <<nextCompetitionId, nextEventId, dialect>>

\* jobs.py 210-224: the handler of the outer try writes the error in a
\* session of its own and swallows whatever that raises.
FatalHandlerEndsUnguarded(log_ok) == IF log_ok THEN "return" ELSE "escaped"

FatalHandlerEnds(log_ok) == "return"

\* The record of the last call of the repository.
NoCall == [op |-> "none", args |-> Args(None, None, FirstDocument, SecondRow),
           raised |-> FALSE, id |-> 0, flag |-> FALSE,
           pre |-> [competitions |-> {}, events |-> {}],
           before_date |-> 0, rowcount |-> 0]

\* A caller of the repository (the tests, the scraping job) upserts one
\* competition.
CallUpsert ==
    /\ \E a \in UpsertArgs :
        LET r == upsert_with_hash(DB, a)
        IN /\ WithinBounds(r.db)
           /\ Store(r.db)
           /\ call' = [NoCall EXCEPT
                          !.op = "upsert_with_hash", !.args = a,
                          !.raised = r.raised, !.id = r.id, !.flag = r.flag,
                          !.pre = [competitions |-> competitions,
                                   events |-> events]]
    /\ UNCHANGED <<jobvars, svcvars>>

\* The day a caller passes to delete_past_competitions: competitions are
\* stored for the days before it and for the day itself.
CleanupDates == {DateOf(ThisYear, 1, 18)}

\* A caller of the repository (the tests, the scraping job) deletes the
\* competitions dated before a day.
CallDeletePast ==
    /\ \E d \in CleanupDates :
          LET r == delete_past_competitions(DB, d, ForeignKeys(dialect))
          IN /\ Store(r.db)
             /\ call' = [NoCall EXCEPT
                            !.op = "delete_past_competitions",
                            !.before_date = d, !.rowcount = r.rowcount,
                            !.pre = [competitions |-> competitions,
                                     events |-> events]]
    /\ UNCHANGED <<jobvars, svcvars>>

\* jobs.py 43-64: the statistics start at zero, the target months are
\* computed and the session is opened.
StartJob ==
    /\ pc = "idle"
    /\ \E m \in TodayMonths :
          job' = [IdleJob EXCEPT
                     !.today = TodayOf(m),
                     !.months = get_current_and_next_months(TodayOf(m)),
                     !.mi = 1]
    /\ pc' = "months"
    /\ UNCHANGED <<dbvars, call, svcvars, errorLogs, committed>>

\* jobs.py 66-192: the next target month is scraped.
ScrapeMonth ==
    /\ pc = "months"
    /\ job.mi <= Len(job.months)
    /\ \E response \in Responses, env \in Environments :
          \E js \in {ScrapeOneMonth([job |-> job, db |-> DB, logs |-> errorLogs],
                                    job.mi, response, env)} :
             /\ WithinBounds(js.db)
             /\ Store(js.db)
             /\ errorLogs' = js.logs
             /\ job' = [js.job EXCEPT !.mi = @ + 1]
             /\ pc' = IF js.job.propagating THEN "session_exit" ELSE "months"
    /\ UNCHANGED <<call, svcvars, committed>>

\* jobs.py 194: session.commit() after the last month.
CommitRun ==
    /\ pc = "months"
    /\ job.mi > Len(job.months)
    /\ \E commit_ok \in BOOLEAN :
          IF commit_ok
          THEN /\ committed' = Snapshot(competitions, events, notificationLogs, errorLogs)
               /\ pc' = "cleanup"
               /\ UNCHANGED job
          ELSE /\ job' = [job EXCEPT !.propagating = TRUE]
               /\ pc' = "session_exit"
               /\ UNCHANGED committed
    /\ UNCHANGED <<dbvars, call, svcvars, errorLogs>>

\* jobs.py 196-208: the competitions dated before today are deleted; an
\* exception of that is counted and written to the error log.
Cleanup ==
    /\ pc = "cleanup"
    /\ \E delete_ok \in BOOLEAN, log_ok \in BOOLEAN :
          LET r == delete_past_competitions(
                       DB, DateOf(job.today.year, job.today.month, job.today.day),
                       ForeignKeys(dialect))
          IN IF delete_ok
             THEN /\ Store(r.db)
                  /\ job' = [job EXCEPT !.stats.competitions_deleted = r.rowcount,
                                        !.cleanup = "done"]
                  /\ UNCHANGED errorLogs
             ELSE /\ job' = [job EXCEPT !.stats = CountError(@),
                                        !.cleanup = "failed",
                                        !.propagating = ~log_ok]
                  /\ errorLogs' =
                        IF log_ok
                        THEN Append(errorLogs,
                                    ErrorLog("SQLAlchemyError",
                                             "Error eliminando competiciones pasadas",
                                             0, 0, None))
                        ELSE errorLogs
                  /\ UNCHANGED dbvars
    /\ pc' = "session_exit"
    /\ UNCHANGED <<call, svcvars, committed>>

\* engine.py 86-91: the session block is left.  Without exception the
\* session is committed; with one, or when that commit raises, it is rolled
\* back and the exception goes on to the handler of the outer try.
SessionExit ==
    /\ pc = "session_exit"
    /\ \E commit_ok \in BOOLEAN :
          IF ~job.propagating /\ commit_ok
          THEN /\ committed' = Snapshot(competitions, events, notificationLogs, errorLogs)
               /\ pc' = "return"
               /\ UNCHANGED <<dbvars, errorLogs, job>>
          ELSE /\ Rollback
               /\ job' = [job EXCEPT !.propagating = TRUE]
               /\ pc' = "fatal"
               /\ UNCHANGED committed
    /\ UNCHANGED <<call, svcvars>>

\* jobs.py 210-224: the exception that left the session block is counted
\* and written to the error log in a session of its own.
Fatal ==
    /\ pc = "fatal"
    /\ \E log_ok \in BOOLEAN :
          LET row == ErrorLog("Exception", "Error fatal en scraping job",
                              0, 0, None)
          IN /\ job' = [job EXCEPT !.stats = CountError(@),
                                   !.propagating = FALSE,
                                   !.fatal = IF log_ok THEN "logged"
                                             ELSE "unlogged"]
             /\ errorLogs' = IF log_ok THEN Append(errorLogs, row) ELSE errorLogs
             /\ committed' = IF log_ok
                             THEN [committed EXCEPT !.errorLogs = Append(@, row)]
                             ELSE committed
             /\ pc' = FatalHandlerEnds(log_ok)
    /\ UNCHANGED <<dbvars, call, svcvars>>

\* jobs.py 226-227: return stats.
Return ==
    /\ pc = "return"
    /\ pc' = "done"
    /\ UNCHANGED <<dbvars, call, svcvars, job, errorLogs, committed>>

\* ---------------------------------------------------------------- PDF parser
\* pdf_parser.py. A cell of a table and the text of a page are sequences of
\* words; the empty string is the empty sequence. A document is read from
\* its tables first and from its text when the tables give no event.
MaxCellWords == 2
MaxTextWords == 3

\* The words of the data cells: an hour, a heat label, a discipline of
\* COMMON_DISCIPLINES, a discipline known only to the patterns of
\* _find_discipline_in_row, a sex.
DataWords == {"10:30", "Serie 1", "Altura", "Relevos", "F"}
TextWords == {"60m", "Altura", "femenino"}

\* `s in word.lower()` for the words above and the keywords the parser
\* looks for.
Substrings ==
    {<<"Prueba", "prueba">>, <<"Sexo", "sexo">>, <<"Hora", "hora">>,
     <<"F", "f">>, <<"femenino", "f">>, <<"femenino", "m">>,
     <<"femenino", "femen">>, <<"femenino", "femenino">>, <<"60m", "m">>,
     <<"60m", "60">>, <<"60m", "60m">>, <<"Altura", "altura">>,
     <<"Relevos", "relevos">>}

Contains(word, s) == <<word, s>> \in Substrings

CellContains(cell, keywords) ==
    \E i \in DOMAIN cell : \E kw \in keywords : Contains(cell[i], kw)

\* re.search(r"\d{1,2}[:\.]\d{2}", word) and re.search(r"[Ss]erie\s*\d+", word)
IsTimeWord(word) == word \in {"10:30"}
IsSerieWord(word) == word \in {"Serie 1"}

Cells == UNION {[1..n -> DataWords] : n \in 0..MaxCellWords}

\* pdf_parser.py 547-559: the first hour of the cell, None (<<>>) without one.
_parse_time(cell) ==
    LET hours == {i \in DOMAIN cell : IsTimeWord(cell[i])}
    IN IF hours = {} THEN <<>>
       ELSE <<cell[CHOOSE i \in hours : \A k \in hours : i <= k]>>

\* pdf_parser.py 483-513: the first cell that matches a discipline pattern.
_find_discipline_in_row(row) ==
    LET hits == {i \in DOMAIN row :
                    CellContains(row[i], {"altura", "relevos", "vallas",
                                          "longitud", "peso", "marcha"})}
    IN IF hits = {} THEN <<>>
       ELSE row[CHOOSE i \in hits : \A k \in hits : i <= k]

\* The text of a row: " ".join(cells), the words of a cell one space apart.
RECURSIVE JoinWords(_)
JoinWords(ws) ==
    IF ws = <<>> THEN <<>>
    ELSE IF Len(ws) = 1 THEN ws
    ELSE <<Head(ws), " ">> \o JoinWords(Tail(ws))

RECURSIVE JoinCells(_)
JoinCells(row) ==
    IF row = <<>> THEN <<>>
    ELSE IF Len(row) = 1 THEN JoinWords(row[1])
    ELSE JoinWords(row[1]) \o <<" ">> \o JoinCells(Tail(row))

\* pdf_parser.py 515-545: the sex of the sex column, then of the row text,
\* then masculine.
_extract_sex_from_row(row, sex_col) ==
    LET text == JoinCells(row)
        in_column == sex_col # 0 /\ sex_col <= Len(row)
    IN IF in_column /\ CellContains(row[sex_col], {"f", "fem", "muj"}) THEN "F"
       ELSE IF in_column /\ CellContains(row[sex_col], {"m", "mas", "hom"})
       THEN "M"
       ELSE IF \/ \E i \in DOMAIN text :
                     Contains(text[i], "femenino") \/ Contains(text[i], "mujeres")
               \/ \E i \in DOMAIN text :
                     /\ text[i] = "F"
                     /\ i > 1 /\ i < Len(text)
                     /\ text[i - 1] = " " /\ text[i + 1] = " "
       THEN "F"
       ELSE "M"

\* scraper/models.py 161-168: the alias of the lowered text, the text itself
\* without one.
normalize_discipline(discipline) ==
    IF discipline = <<"60m">> THEN <<"60">>
    ELSE IF discipline = <<"Altura">> THEN <<"Altura">>
    ELSE discipline

\* scraper/models.py 186-208
detect_event_type(discipline) ==
    IF CellContains(discipline, {"altura", "longitud", "triple", "peso",
                                 "disco", "martillo", "jabalina", "salto"})
    THEN "concurso" ELSE "carrera"

ParsedEvent(discipline, event_type, sex, scheduled_time) ==
    [discipline |-> discipline, event_type |-> event_type, sex |-> sex,
     category |-> <<>>, scheduled_time |-> scheduled_time]

\* pdf_parser.py 447-462: the hours and the heat label are taken out of the
\* text of the discipline cell.
CleanDiscipline(discipline) ==
    SelectSeq(discipline, LAMBDA w : ~IsTimeWord(w) /\ ~IsSerieWord(w))

\* pdf_parser.py 439-445: a row without a discipline gives no event; the
\* test is made on the cell as read.
EventRowDiscipline(discipline) == discipline # <<>>

\* pdf_parser.py 411-481: the event of a row, None (<<>>) when the row is
\* empty or has no discipline; otherwise a sequence with the one event.
_parse_event_row(row, discipline_col, sex_col, time_col) ==
    LET in_time_col == IF time_col # 0 /\ time_col <= Len(row)
                       THEN _parse_time(row[time_col]) ELSE <<>>
        scheduled_time == IF in_time_col # <<>> THEN in_time_col
                          ELSE _parse_time(JoinCells(row))
        discipline == IF discipline_col # 0 /\ discipline_col <= Len(row)
                      THEN row[discipline_col]
                      ELSE _find_discipline_in_row(row)
        normalized == normalize_discipline(CleanDiscipline(discipline))
    IN IF \A i \in DOMAIN row : row[i] = <<>> THEN <<>>
       ELSE IF ~EventRowDiscipline(discipline) THEN <<>>
       ELSE <<ParsedEvent(normalized, detect_event_type(normalized),
                          _extract_sex_from_row(row, sex_col), scheduled_time)>>

DisciplineHeader(cell) == CellContains(cell, {"prueba", "disciplina", "evento"})
SexHeader(cell) ==
    ~DisciplineHeader(cell) /\ CellContains(cell, {"sexo", "género", "cat"})
TimeHeader(cell) ==
    /\ ~DisciplineHeader(cell)
    /\ ~CellContains(cell, {"sexo", "género", "cat"})
    /\ CellContains(cell, {"hora", "tiempo", "horario", "inicio", "comienzo"})

HasHour(cell) == \E i \in DOMAIN cell : IsTimeWord(cell[i])
IsSexCell(cell) == cell \in {<<"M">>, <<"F">>, <<"M-F">>, <<"H">>}
HasCommonDiscipline(cell) == CellContains(cell, {"altura", "60", "60m"})

\* The column a header cell names: the first keyword list that matches.
HeaderKind(cell) ==
    IF DisciplineHeader(cell) THEN "discipline"
    ELSE IF SexHeader(cell) THEN "sex"
    ELSE IF TimeHeader(cell) THEN "time"
    ELSE "none"

\* The content a data cell looks like.
LooksLike(kind, cell) ==
    CASE kind = "time" -> HasHour(cell)
      [] kind = "sex" -> IsSexCell(cell)
      [] OTHER -> HasCommonDiscipline(cell)

\* The last column of the header row whose cell holds one of the keywords.
LastColumn(row, kind) ==
    LET hits == {i \in DOMAIN row : row[i] # <<>> /\ HeaderKind(row[i]) = kind}
    IN IF hits = {} THEN 0 ELSE CHOOSE i \in hits : \A k \in hits : k <= i

\* The column of the first cell, row by row over the first three rows, that
\* looks like the content sought.
FirstColumn(table, kind) ==
    LET rows == 1..(IF Len(table) < 3 THEN Len(table) ELSE 3)
        hits == {p \in UNION {{<<r, i>> : i \in DOMAIN table[r]} : r \in rows} :
                    /\ table[p[1]][p[2]] # <<>>
                    /\ LooksLike(kind, table[p[1]][p[2]])}
    IN IF hits = {} THEN 0
       ELSE (CHOOSE p \in hits :
                \A q \in hits : p[1] < q[1] \/ (p[1] = q[1] /\ p[2] <= q[2]))[2]

\* pdf_parser.py 400-407: an event without an hour takes the hour of the
\* event before it.
RECURSIVE InheritTimes(_, _)
InheritTimes(evs, last_time) ==
    IF evs = <<>> THEN <<>>
    ELSE LET e == Head(evs)
             t == IF e.scheduled_time = <<>> THEN last_time
                  ELSE e.scheduled_time
         IN <<[e EXCEPT !.scheduled_time = t]>> \o InheritTimes(Tail(evs), t)

RECURSIVE ParseRowsFrom(_, _, _, _, _)
ParseRowsFrom(table, i, discipline_col, sex_col, time_col) ==
    IF i > Len(table) THEN <<>>
    ELSE _parse_event_row(table[i], discipline_col, sex_col, time_col)
             \o ParseRowsFrom(table, i + 1, discipline_col, sex_col, time_col)

\* pdf_parser.py 328-409: the columns come from the header row, then from
\* the content of the first rows; when the content gave the discipline
\* column the first row is data as well.
_parse_events_table(table, initial_time) ==
    LET header_discipline == LastColumn(table[1], "discipline")
        header_sex == LastColumn(table[1], "sex")
        header_time == LastColumn(table[1], "time")
        by_content == header_discipline = 0
                          \/ (header_time = 0 /\ header_sex = 0)
        time_col == IF by_content /\ header_time = 0
                    THEN FirstColumn(table, "time") ELSE header_time
        sex_col == IF by_content /\ header_sex = 0
                   THEN FirstColumn(table, "sex") ELSE header_sex
        discipline_col == IF by_content /\ header_discipline = 0
                          THEN FirstColumn(table, "discipline")
                          ELSE header_discipline
        start_index == IF by_content /\ discipline_col # 0 THEN 1 ELSE 2
    IN InheritTimes(ParseRowsFrom(table, start_index, discipline_col, sex_col,
                                  time_col),
                    initial_time)

\* pdf_parser.py 302-326: the events of every table, in order.
RECURSIVE _extract_events_from_tables(_, _)
_extract_events_from_tables(tables, last_time) ==
    IF tables = <<>> THEN <<>>
    ELSE LET evs == IF Head(tables) = <<>> THEN <<>>
                    ELSE _parse_events_table(Head(tables), last_time)
             t == IF evs = <<>> THEN last_time
                  ELSE evs[Len(evs)].scheduled_time
         IN evs \o _extract_events_from_tables(Tail(tables), t)

\* The matches of a pattern list in a text: the word and the discipline that
\* group 1 gives, a number taking the suffix "m".
TextMatches(text, words) ==
    SelectSeq(text, LAMBDA w : w \in words)

\* The sex of a match: the fifty characters around it hold "femen" or
\* "mujer". The texts here are shorter than fifty characters.
TextSex(text) ==
    IF \E i \in DOMAIN text : Contains(text[i], "femen") \/ Contains(text[i], "mujer")
    THEN "F" ELSE "M"

RECURSIVE TextEvents(_, _, _, _)
TextEvents(matches, event_type, sex, sofar) ==
    IF matches = <<>> THEN sofar
    ELSE LET discipline == normalize_discipline(<<Head(matches)>>)
             existing == \E i \in DOMAIN sofar :
                            /\ sofar[i].discipline = discipline
                            /\ sofar[i].sex = sex
         IN TextEvents(Tail(matches), event_type, sex,
                       IF existing THEN sofar
                       ELSE Append(sofar, ParsedEvent(discipline, event_type,
                                                      sex, <<>>)))

\* pdf_parser.py 561-608: the races, then the field events, each pair of
\* discipline and sex once.
_extract_events_from_text(text) ==
    TextEvents(TextMatches(text, {"Altura"}), "concurso", TextSex(text),
               TextEvents(TextMatches(text, {"60m"}), "carrera", TextSex(text),
                          <<>>))

\* pdf_parser.py 117-130: MONTHS_ES.get(word.lower(), 0).
MONTHS_ES(word) ==
    IF word = "enero" THEN 1 ELSE IF word = "febrero" THEN 2 ELSE 0

\* str.isdigit: true of decimal digits and of digit characters such as the
\* superscript two, which int() refuses with ValueError.
isdigit(word) == word \in {"01", "13", "²"}
IntRaises(word) == word = "²"
IntOf(word) == IF word = "01" THEN 1 ELSE 13

\* datetime.date(year, month, day) raises ValueError outside the calendar.
DateRaises(month, day) ==
    \/ month \notin 1..12
    \/ day < 1
    \/ day > (IF month = 2 THEN 28 ELSE 31)

\* The date phrases of a text: none, "D de W de YYYY", "D de W" (year 0),
\* each with or without a leading "Fecha:", and "D/W/YYYY".
DateDays == {11, 31}
DateWords == {"enero", "febrero", "01", "²", "pista"}
NoDatePhrase == [form |-> "none", fecha |-> FALSE, day |-> 0, month |-> "",
                 year |-> 0]
DatePhrases ==
    {NoDatePhrase}
    \cup {[form |-> "words", fecha |-> f, day |-> d, month |-> w, year |-> y] :
            f \in BOOLEAN, d \in DateDays, w \in DateWords,
            y \in {0, ThisYear + 1}}
    \cup {[form |-> "slashes", fecha |-> FALSE, day |-> d, month |-> w,
           year |-> ThisYear + 1] : d \in DateDays, w \in {"01", "13"}}

\* pdf_parser.py 81-88: which of the three DATE_PATTERNS finds a match.
PatternMatches(n, phrase) ==
    IF n = 1 THEN phrase.form = "words" /\ phrase.year # 0
    ELSE IF n = 2 THEN phrase.form = "slashes"
    ELSE phrase.form = "words" /\ phrase.fecha

NoDate == [raised |-> FALSE, date |-> 0]

\* pdf_parser.py 222-238 (three groups) and 240-251 (two groups): the date a
\* matching pattern returns, "next" when the loop goes on to the next
\* pattern, "raise" when int() fails outside the guarded date construction.
PatternDate(n, phrase, today) ==
    IF n < 3
    THEN IF isdigit(phrase.month) /\ IntRaises(phrase.month) THEN "raise"
         ELSE LET month == IF isdigit(phrase.month) THEN IntOf(phrase.month)
                           ELSE MONTHS_ES(phrase.month)
              IN IF month # 0 /\ phrase.day >= 1 /\ phrase.day <= 31
                 THEN IF DateRaises(month, phrase.day) THEN "next"
                      ELSE "found"
                 ELSE "next"
    ELSE LET month == MONTHS_ES(phrase.month)
         IN IF month # 0 /\ ~DateRaises(month, phrase.day) THEN "found"
            ELSE "next"

PatternYear(n, phrase, today) == IF n < 3 THEN phrase.year ELSE today.year
PatternMonth(n, phrase) ==
    IF n < 3 /\ isdigit(phrase.month) THEN IntOf(phrase.month)
    ELSE MONTHS_ES(phrase.month)

\* pdf_parser.py 213-253: the first pattern, in order, that matches and
\* gives a date; None (date 0) when none does.
RECURSIVE ExtractDateFrom(_, _, _)
ExtractDateFrom(n, phrase, today) ==
    IF n > 3 THEN NoDate
    ELSE IF ~PatternMatches(n, phrase) THEN ExtractDateFrom(n + 1, phrase, today)
    ELSE LET outcome == PatternDate(n, phrase, today)
         IN IF outcome = "raise" THEN [raised |-> TRUE, date |-> 0]
            ELSE IF outcome = "found"
            THEN [raised |-> FALSE,
                  date |-> DateOf(PatternYear(n, phrase, today),
                                  PatternMonth(n, phrase), phrase.day)]
            ELSE ExtractDateFrom(n + 1, phrase, today)

_extract_date(phrase, today) == ExtractDateFrom(1, phrase, today)

\* pdf_parser.py 255-269: the venue a LOCATION_PATTERNS match gives, None
\* (the empty string here) when none matches.
Venues == {"", "Gallur"}
_extract_location(venue) == venue

DefaultLocation == "Lugar no especificado"

NoCompetition == [raised |-> TRUE, events |-> <<>>, competition_date |-> 0,
                  location |-> ""]

\* pdf_parser.py 135-211: the Competition of a readable document; an
\* unreadable one, and any exception of the extraction, raises
\* PDFParserError.
parse(document, today) ==
    IF ~document.readable THEN NoCompetition
    ELSE LET extracted == _extract_date(document.date, today)
             venue == _extract_location(document.venue)
             from_tables == _extract_events_from_tables(document.tables, <<>>)
         IN IF extracted.raised THEN NoCompetition
            ELSE [raised |-> FALSE,
                  events |-> IF from_tables # <<>> THEN from_tables
                             ELSE _extract_events_from_text(document.text),
                  competition_date |->
                      IF extracted.date = 0
                      THEN DateOf(today.year, today.month, today.day)
                      ELSE extracted.date,
                  location |-> IF venue = "" THEN DefaultLocation ELSE venue]

\* The documents parsed: one table of a header row and a data row with a
\* discipline cell and a sex cell, or no table and a text.
HeaderRows == {<<<<"Prueba">>, <<"Sexo">>>>, <<<<"Hora">>, <<"Sexo">>>>,
               <<<<"Prueba">>, <<>>>>}
Texts == UNION {[1..n -> TextWords] : n \in 0..MaxTextWords}

ParseInputs ==
    {[readable |-> TRUE, tables |-> <<<<h, <<c1, c2>>>>>>,
      text |-> <<"Altura", "femenino">>, date |-> NoDatePhrase,
      venue |-> "Gallur"] :
        h \in HeaderRows, c1 \in Cells, c2 \in Cells}
    \cup {[readable |-> r, tables |-> <<>>, text |-> t, date |-> NoDatePhrase,
           venue |-> ""] :
            r \in BOOLEAN, t \in Texts}
    \cup {[readable |-> r, tables |-> <<>>, text |-> t, date |-> p,
           venue |-> v] :
            r \in BOOLEAN, t \in {<<>>, <<"Altura">>}, p \in DatePhrases,
            v \in Venues}

NoParse == [state |-> "none",
            document |-> [readable |-> FALSE, tables |-> <<>>, text |-> <<>>,
                          date |-> NoDatePhrase, venue |-> ""],
            today |-> TodayOf(1), raised |-> FALSE, events |-> <<>>,
            competition_date |-> 0, location |-> ""]

\* A caller (the scraping job, the tests) parses one document.
Parse ==
    /\ parsing.state = "pending"
    /\ \E r \in {parse(parsing.document, parsing.today)} :
          parsing' = [parsing EXCEPT !.state = "returned",
                                     !.raised = r.raised,
                                     !.events = r.events,
                                     !.competition_date = r.competition_date,
                                     !.location = r.location]
    /\ UNCHANGED <<dbvars, call, jobvars, users, subscriptions,
                   nextSubscriptionId, svc, wanted, notify, extvars>>

\* ---------------------------------------------------------------- subscriptions
\* repositories/subscription.py. A subscription row is [id, user_id,
\* discipline, sex]; a user row is [id, is_active].
MaxSubscriptions == 2

UserIds == {1, 2}
SubscriptionDisciplines == {"Pértiga", "PÉRTIGA"}
SubscriptionSexes == {"M", "f"}

\* str.upper() of the sex letter.
Upper(sex) ==
    CASE sex = "m" -> "M"
      [] sex = "f" -> "F"
      [] OTHER -> sex

\* Lower case over the whole alphabet: str.lower(), and lower() of a
\* PostgreSQL database in a UTF-8 locale.
UnicodeLower(s) ==
    CASE s \in {"Pértiga", "PÉRTIGA"} -> "pértiga"
      [] s \in {"Altura", "ALTURA"} -> "altura"
      [] OTHER -> s

\* lower() of SQLite: only the letters A to Z are folded.
AsciiLower(s) ==
    CASE s = "Pértiga" -> "pértiga"
      [] s = "PÉRTIGA" -> "pÉrtiga"
      [] s \in {"Altura", "ALTURA"} -> "altura"
      [] OTHER -> s

\* column.ilike(pattern): ILIKE on PostgreSQL, lower(column) LIKE
\* lower(pattern) elsewhere. The patterns here hold no wildcard.
ilike(d, value, pattern) ==
    IF d = "postgresql" THEN UnicodeLower(value) = UnicodeLower(pattern)
    ELSE AsciiLower(value) = AsciiLower(pattern)

\* The rows the WHERE clause of get_subscription and unsubscribe selects.
Matching(subs, d, user_id, discipline, sex) ==
    {s \in subs : /\ s.user_id = user_id
                  /\ ilike(d, s.discipline, discipline)
                  /\ s.sex = Upper(sex)}

\* subscription.py 72-113: the existing row and False, or a new row and
\* True; scalar_one_or_none raises when several rows match.
subscribe(subs, next_id, d, user_id, discipline, sex) ==
    LET existing == Matching(subs, d, user_id, discipline, sex)
        row == [id |-> next_id, user_id |-> user_id, discipline |-> discipline,
                sex |-> Upper(sex)]
    IN IF Cardinality(existing) > 1
       THEN [subscriptions |-> subs, next_id |-> next_id, raised |-> TRUE,
             id |-> 0, flag |-> FALSE]
       ELSE IF existing # {}
       THEN [subscriptions |-> subs, next_id |-> next_id, raised |-> FALSE,
             id |-> (CHOOSE s \in existing : TRUE).id, flag |-> FALSE]
       ELSE [subscriptions |-> subs \cup {row}, next_id |-> next_id + 1,
             raised |-> FALSE, id |-> next_id, flag |-> TRUE]

\* subscription.py 115-139: the matching rows are deleted; True when any was.
unsubscribe(subs, d, user_id, discipline, sex) ==
    LET gone == Matching(subs, d, user_id, discipline, sex)
    IN [subscriptions |-> subs \ gone, flag |-> gone # {}]

\* The subscription a call names: the user, the discipline without its
\* case, the sex.
Triple(user_id, discipline, sex) ==
    <<user_id, UnicodeLower(discipline), Upper(sex)>>

NoSvc == [op |-> "none", user_id |-> 0, discipline |-> "", sex |-> "",
          raised |-> FALSE, flag |-> FALSE, id |-> 0, pre |-> {},
          wanted |-> {}]

\* A handler of the bot subscribes a user (handlers/subscription.py 191,
\* handlers/subscriptions.py 200).
Subscribe ==
    /\ \E u \in UserIds, discipline \in SubscriptionDisciplines,
          sex \in SubscriptionSexes :
          LET r == subscribe(subscriptions, nextSubscriptionId, dialect, u,
                             discipline, sex)
          IN /\ r.next_id <= MaxSubscriptions + 1
             /\ subscriptions' = r.subscriptions
             /\ nextSubscriptionId' = r.next_id
             /\ wanted' = IF r.raised THEN wanted
                          ELSE wanted \cup {Triple(u, discipline, sex)}
             /\ svc' = [NoSvc EXCEPT
                           !.op = "subscribe", !.user_id = u,
                           !.discipline = discipline, !.sex = sex,
                           !.raised = r.raised, !.flag = r.flag, !.id = r.id,
                           !.pre = subscriptions, !.wanted = wanted]
    /\ UNCHANGED <<dbvars, call, jobvars, parsing, users, notify, extvars>>

\* A handler of the bot unsubscribes a user (handlers/subscription.py 328,
\* handlers/subscriptions.py 129, 223).
Unsubscribe ==
    /\ \E u \in UserIds, discipline \in SubscriptionDisciplines,
          sex \in SubscriptionSexes :
          LET r == unsubscribe(subscriptions, dialect, u, discipline, sex)
          IN /\ subscriptions' = r.subscriptions
             /\ wanted' = wanted \ {Triple(u, discipline, sex)}
             /\ svc' = [NoSvc EXCEPT
                           !.op = "unsubscribe", !.user_id = u,
                           !.discipline = discipline, !.sex = sex,
                           !.flag = r.flag,
                           !.pre = subscriptions, !.wanted = wanted]
    /\ UNCHANGED <<dbvars, call, jobvars, parsing, users, nextSubscriptionId,
                   notify, extvars>>

\* ---------------------------------------------------------------- notifications
\* scheduler/jobs.py 230-468 with notifications/service.py and the
\* repositories it calls. A notification log row is [user_id, event_id].
MaxRuns == 1

\* The days the job runs on: before the stored competitions and between them.
NotifyDays == {DateOf(ThisYear, 1, 16), DateOf(ThisYear, 1, 18)}

\* What sending to one user does: the message goes out, Telegram refuses it
\* (TelegramError, send_notification returns False), or the call raises
\* before anything is sent.
SendOutcomes == {"sent", "refused", "raised"}

\* What the outside does to one pass: whether the queries work, what each
\* send does, and whether the writes of the notification log, the writes of
\* the error log (by the loop and by the fatal handler) and the commit work.
NotifyEnvironments ==
    [db_ok : BOOLEAN, send : [UserIds -> SendOutcomes], log_ok : BOOLEAN,
     error_log_ok : BOOLEAN, commit_ok : BOOLEAN]

\* competition.py 50-66
get_upcoming(rows, from_date) == {c \in rows : c.competition_date >= from_date}

\* subscription.py 46-70: the users of the subscriptions joined with the
\* active users; before it, the same query without the filter on
\* User.is_active.
get_users_for_event_any_user(us, subs, d, discipline, sex) ==
    {s.user_id : s \in {s \in subs : /\ ilike(d, s.discipline, discipline)
                                     /\ s.sex = Upper(sex)
                                     /\ \E u \in us : u.id = s.user_id}}

get_users_for_event(us, subs, d, discipline, sex) ==
    {s.user_id : s \in {s \in subs : /\ ilike(d, s.discipline, discipline)
                                     /\ s.sex = Upper(sex)
                                     /\ \E u \in us : /\ u.id = s.user_id
                                                      /\ u.is_active}}

\* notification.py 25-46
was_notified(logs, user_id, event_id) ==
    \E l \in logs : l.user_id = user_id /\ l.event_id = event_id

\* notification.py 48-61
log_notification(logs, user_id, event_ids) ==
    logs \cup {[user_id |-> user_id, event_id |-> e] : e \in event_ids}

\* jobs.py 281-309, 390-414: the pairs of subscribed user and event of the
\* given competitions.
Subscribed(comps, evs, us, subs, d) ==
    UNION {{<<u, e.id>> : u \in get_users_for_event(us, subs, d, e.data.discipline,
                                                    e.data.sex)} :
              e \in UNION {EventsOf(evs, c.id) : c \in comps}}

NotificationError(text) ==
    [component |-> "notifications", error_type |-> "Exception", text |-> text,
     month |-> 0, year |-> 0, name |-> None]

NoNotifyStats == [users_notified |-> 0, notifications_sent |-> 0,
                  notifications_skipped |-> 0, errors |-> 0]

\* jobs.py 347-356, 440-447: the handler of a send counts the error and
\* writes it to the error log; a failed write leaves the loop.
SendFailed(st, u, env) ==
    IF env.error_log_ok
    THEN [st EXCEPT !.stats = CountError(@),
                    !.errorLogs = Append(@, NotificationError("Error enviando notificacion"))]
    ELSE [st EXCEPT !.stats = CountError(@), !.raised = TRUE]

\* jobs.py 314-345, 419-438: one user is sent the message with the events
\* gathered and a log row is written for each of them; before it, the same
\* with the log rows written whatever send_notification returned.
SendTo_logging_refused(st, u, event_ids, env, first) ==
    LET pairs == {<<u, e>> : e \in event_ids}
        tried == [st EXCEPT !.offered = @ \cup pairs]
        out == [tried EXCEPT !.sent = @ \cup pairs,
                             !.resent = @ \cup (pairs \cap st.acked),
                             !.delivered = @ \cup pairs,
                             !.failed = @ \ pairs,
                             !.messages[u] = @ + 1,
                             !.stats.users_notified = @ + 1]
        lost == [tried EXCEPT !.failed = @ \cup pairs]
    IN CASE env.send[u] = "sent" /\ env.log_ok ->
                [out EXCEPT !.logs = log_notification(@, u, event_ids),
                            !.acked = @ \cup pairs,
                            !.stats.notifications_sent = @ + Cardinality(pairs)]
         [] env.send[u] = "sent" /\ ~env.log_ok -> SendFailed(out, u, env)
         [] env.send[u] = "refused" ->
                [lost EXCEPT !.logs = log_notification(@, u, event_ids)]
         [] OTHER -> SendFailed(lost, u, env)

SendTo(st, u, event_ids, env, first) ==
    LET pairs == {<<u, e>> : e \in event_ids}
        tried == [st EXCEPT !.offered = @ \cup pairs]
        out == [tried EXCEPT !.sent = @ \cup pairs,
                             !.resent = @ \cup (pairs \cap st.acked),
                             !.delivered = @ \cup pairs,
                             !.failed = @ \ pairs,
                             !.messages[u] = @ + 1,
                             !.stats.users_notified = @ + 1]
        lost == [tried EXCEPT !.failed = @ \cup pairs]
    IN CASE env.send[u] = "sent" /\ env.log_ok ->
                [out EXCEPT !.logs = log_notification(@, u, event_ids),
                            !.acked = @ \cup pairs,
                            !.stats.notifications_sent = @ + Cardinality(pairs)]
         [] env.send[u] = "sent" /\ ~env.log_ok -> SendFailed(out, u, env)
         [] env.send[u] = "refused" ->
                IF first THEN [lost EXCEPT !.stats = CountError(@)] ELSE lost
         [] OTHER -> SendFailed(lost, u, env)

\* The loop over user_notifications; an exception that leaves it ends it.
RECURSIVE SendLoop(_, _, _, _, _)
SendLoop(st, order, pending, env, first) ==
    IF order = <<>> \/ st.raised THEN st
    ELSE SendLoop(SendTo(st, Head(order),
                         {p[2] : p \in {q \in pending : q[1] = Head(order)}},
                         env, first),
                  Tail(order), pending, env, first)

\* jobs.py 266-358, 378-449: one pass over the given competitions inside
\* its session: gather per user what was not yet notified, then send.
NotificationPass(st, comps, env, first) ==
    LET subscribed == Subscribed(comps, events, users, subscriptions, dialect)
        skipped == {p \in subscribed : was_notified(st.logs, p[1], p[2])}
        gathered == [st EXCEPT
                        !.stats.notifications_skipped = @ + Cardinality(skipped),
                        !.sent = {}]
    IN IF ~env.db_ok THEN [st EXCEPT !.sent = {}, !.raised = TRUE]
       ELSE SendLoop(gathered, SortedSet({p[1] : p \in subscribed \ skipped}),
                     subscribed \ skipped, env, first)

\* The job between runs. delivered holds the pairs of user and event that
\* were sent, acked those sent whose log row was written, resent those sent
\* again after that, sent those of the last pass, offered those the run
\* called send_notification with, failed those whose last send did not
\* return True and failed_before those of them when the run started;
\* messages counts the messages sent to each user by the run, bot tells that
\* the run was given a bot, aborted that an exception ended the last pass.
IdleNotify ==
    [pc |-> "idle", runs |-> 0, max_runs |-> MaxRuns, today |-> 0,
     stats |-> NoNotifyStats,
     delivered |-> {}, acked |-> {}, resent |-> {}, sent |-> {},
     offered |-> {}, failed |-> {}, failed_before |-> {},
     messages |-> [u \in UserIds |-> 0], bot |-> FALSE,
     aborted |-> FALSE, fatal |-> FALSE]

\* What a pass starts from and what it leaves.
PassState ==
    [logs |-> notificationLogs, errorLogs |-> errorLogs, stats |-> notify.stats,
     delivered |-> notify.delivered, acked |-> notify.acked,
     resent |-> notify.resent, sent |-> {}, offered |-> notify.offered,
     failed |-> notify.failed, messages |-> notify.messages,
     raised |-> FALSE]

\* The end of a pass: the commit, or the rollback of what the session wrote
\* and the handler of the outer try, which swallows its own failure.
EndPass(st, env, next_pc) ==
    IF ~st.raised /\ env.commit_ok
    THEN /\ notificationLogs' = st.logs
         /\ errorLogs' = st.errorLogs
         /\ committed' = [committed EXCEPT !.notificationLogs = st.logs,
                                           !.errorLogs = st.errorLogs]
         /\ notify' = [notify EXCEPT
                          !.pc = next_pc, !.stats = st.stats,
                          !.delivered = st.delivered, !.acked = st.acked,
                          !.resent = st.resent, !.sent = st.sent,
                          !.offered = st.offered, !.failed = st.failed,
                          !.messages = st.messages, !.aborted = FALSE]
    ELSE LET logs == IF env.error_log_ok
                     THEN Append(committed.errorLogs,
                                 NotificationError("Error fatal en notification job"))
                     ELSE committed.errorLogs
         IN /\ notificationLogs' = committed.notificationLogs
            /\ errorLogs' = logs
            /\ committed' = [committed EXCEPT !.errorLogs = logs]
            /\ notify' = [notify EXCEPT
                             !.pc = next_pc, !.stats = CountError(st.stats),
                             !.delivered = st.delivered, !.acked = st.acked,
                             !.resent = st.resent, !.sent = st.sent,
                             !.offered = st.offered, !.failed = st.failed,
                             !.messages = st.messages, !.aborted = TRUE,
                             !.fatal = TRUE]

\* jobs.py 230-263: the statistics start at zero; without a bot the job
\* returns them at once.
StartNotification ==
    /\ notify.pc = "idle"
    /\ notify.runs < notify.max_runs
    /\ \E day \in NotifyDays, bot \in BOOLEAN :
          /\ day >= notify.today
          /\ notify' = [notify EXCEPT
                           !.pc = IF bot THEN "tomorrow" ELSE "return",
                           !.runs = @ + 1, !.today = day,
                           !.stats = NoNotifyStats, !.sent = {},
                           !.offered = {}, !.failed_before = notify.failed,
                           !.messages = [u \in UserIds |-> 0], !.bot = bot,
                           !.aborted = FALSE, !.fatal = FALSE]
    /\ UNCHANGED <<dbvars, call, jobvars, parsing, users, subscriptions,
                   nextSubscriptionId, svc, wanted, extvars>>

\* jobs.py 265-374: the pass over the competitions of tomorrow.
TomorrowPass ==
    /\ notify.pc = "tomorrow"
    /\ \E env \in NotifyEnvironments :
          EndPass(NotificationPass(
                      PassState,
                      {c \in get_upcoming(competitions, notify.today) :
                          c.competition_date = notify.today + 1},
                      env, TRUE),
                  env, "upcoming")
    /\ UNCHANGED <<competitions, events, nextCompetitionId, nextEventId, dialect,
                   call, pc, job, parsing, users, subscriptions,
                   nextSubscriptionId, svc, wanted, extvars>>

\* jobs.py 376-465: the pass over every competition from today on.
UpcomingPass ==
    /\ notify.pc = "upcoming"
    /\ \E env \in NotifyEnvironments :
          EndPass(NotificationPass(
                      PassState, get_upcoming(competitions, notify.today),
                      env, FALSE),
                  env, "return")
    /\ UNCHANGED <<competitions, events, nextCompetitionId, nextEventId, dialect,
                   call, pc, job, parsing, users, subscriptions,
                   nextSubscriptionId, svc, wanted, extvars>>

\* jobs.py 467-468
ReturnNotification ==
    /\ notify.pc = "return"
    /\ notify' = [notify EXCEPT !.pc = "idle"]
    /\ UNCHANGED <<dbvars, call, jobvars, parsing, users, subscriptions,
                   nextSubscriptionId, svc, wanted, extvars>>

\* ---------------------------------------------------------------- calendar calls
\* A calendar fragment whose table has three data rows: the first two have
\* a name and a document link, the third has the link or not; each row has
\* a style attribute or none.
FragmentNames == <<"Copa", "Trofeo", "Control">>
FragmentUrls == <<"https://fam/a.pdf", "https://fam/b.pdf", "https://fam/c.pdf">>
Styles == {None, "#EBFFAA", "yellow"}
DateTexts ==
    {[days |-> d, month |-> m] : d \in {<<3>>, <<17, 18>>, <<17, 17>>},
                                 m \in {1, 12}}

FragmentRow(i, style, linked, days) ==
    [cells |-> 5, date_text |-> [days |-> days, month |-> 1],
     name |-> FragmentNames[i],
     pdf_href |-> IF linked THEN FragmentUrls[i] ELSE None,
     enroll_href |-> None, style |-> style]

Fragments ==
    {[status |-> "ok", table |-> TRUE,
      rows |-> <<FragmentRow(1, s1, TRUE, <<3>>),
                 FragmentRow(2, s2, TRUE, <<17, 18>>),
                 FragmentRow(3, s3, linked, <<24>>)>>] :
        s1 \in Styles, s2 \in Styles, s3 \in Styles, linked \in BOOLEAN}

\* jobs.py 103-110: the date of a competition built from the row: the text
\* is split at "/" into day and month; any failure of that gives the first
\* day of the month being scraped.
comp_date(date_str, month, year) ==
    IF date_str.slashes = 1
    THEN DateOf(year, date_str.month_name, date_str.days[1])
    ELSE DateOf(year, month, 1)

NoCalendar ==
    [state |-> "none", op |-> "none", page |-> NoTablePage,
     date_text |-> [days |-> <<3>>, month |-> 1], month |-> 0, year |-> 0,
     today |-> TodayOf(1), raised |-> FALSE, entries |-> <<>>,
     dates |-> <<>>, comp_date |-> 0]

\* web_scraper.py 131-161: a caller parses a page of the calendar.
ParseCalendarHtml ==
    /\ calendar.state = "pending"
    /\ calendar.op = "parse_calendar_html"
    /\ \E r \in {parse_calendar_html(calendar.page, calendar.month,
                                     calendar.year, calendar.today)} :
          calendar' = [calendar EXCEPT !.state = "returned",
                                       !.raised = r.raised,
                                       !.entries = r.entries]
    /\ UNCHANGED <<dbvars, call, jobvars, parsing, users, subscriptions,
                   nextSubscriptionId, svc, wanted, notify, chat>>

\* web_scraper.py 361-403 and jobs.py 103-110: the additional dates read
\* from the date text of a row, and the date the job gives the competition
\* it builds from that row.
EntryDates ==
    /\ calendar.state = "pending"
    /\ calendar.op = "_extract_additional_dates"
    /\ calendar' =
          [calendar EXCEPT
              !.state = "returned",
              !.dates = extract_additional_dates(calendar.date_text,
                                                 calendar.today),
              !.comp_date = comp_date(normalize_date(calendar.date_text,
                                                     calendar.month,
                                                     calendar.year),
                                      calendar.month, calendar.year)]
    /\ UNCHANGED <<dbvars, call, jobvars, parsing, users, subscriptions,
                   nextSubscriptionId, svc, wanted, notify, chat>>

\* ---------------------------------------------------------------- bot conversations
\* main.py 73-116 with bot/handlers/search.py, bot/handlers/subscriptions.py,
\* bot/handlers/subscription.py and bot/keyboards.py. The callback data of
\* a button is the record of its parts between the colons (kind, arg, sex,
\* action), with the date of a date button as a day number; a keyboard is
\* the set of the callback data of its buttons. The Telegram id of a user
\* is the id of its row.
\* The users who talk to the bot, and the disciplines on the two keyboards
\* of disciplines (keyboards.py 66-131 lists sixteen and eight).
ChatUsers == {1}
TrackDisciplines == {"60"}
FieldDisciplines == {"Altura"}

CallbackData(kind, arg, sex, action) ==
    [kind |-> kind, arg |-> arg, sex |-> sex, action |-> action, date |-> 0]

Cancel == CallbackData("cancel", "", "", "")

Back(step) == CallbackData("back", step, "", "")

get_search_method_keyboard ==
    {CallbackData("method", "type", "", ""),
     CallbackData("method", "date", "", ""), Cancel}

get_dates_keyboard(calendar_dates) ==
    {[CallbackData("date", "", "", "") EXCEPT !.date = d] :
        d \in calendar_dates} \cup {Cancel}

get_event_type_keyboard ==
    {CallbackData("type", "carrera", "", ""),
     CallbackData("type", "concurso", "", ""), Back("method"), Cancel}

get_track_events_keyboard ==
    {CallbackData("disc", d, "", "") : d \in TrackDisciplines}
        \cup {Back("type"), Cancel}

get_field_events_keyboard ==
    {CallbackData("disc", d, "", "") : d \in FieldDisciplines}
        \cup {Back("type"), Cancel}

get_sex_keyboard(discipline) ==
    {CallbackData("sex", discipline, s, "") : s \in {"M", "F", "B"}}
        \cup {Back("disc"), Cancel}

\* The previous and next buttons of a list of slides, shown from the first.
subscription_keyboard(total) ==
    IF total > 1 THEN {CallbackData("search", "next", "", "")} ELSE {}

\* The button under the results of a search: it subscribes to the
\* discipline and sex searched for, or unsubscribes when the user is
\* subscribed to them.
get_smart_subscription_keyboard(discipline, sex, is_subscribed) ==
    {CallbackData("smart_sub", discipline, sex,
                  IF is_subscribed THEN "unsub" ELSE "sub")}

\* main.py 73-103: the handler of the search conversation that takes a
\* button pressed in a state, "none" when no pattern of the state matches.
search_conv(state, data) ==
    CASE data = Cancel /\ state # "END" -> "cancel_handler"
      [] state = "SELECT_METHOD" /\ data.kind = "method" -> "method_selected"
      [] state = "SELECT_DATE" /\ data.kind = "date" -> "date_selected"
      [] state = "SELECT_DATE" /\ data = Back("date") -> "method_selected"
      [] state = "SELECT_TYPE" /\ data.kind = "type" -> "type_selected"
      [] state = "SELECT_TYPE" /\ data = Back("method") -> "method_selected"
      [] state = "SELECT_DISCIPLINE" /\ data.kind = "disc" -> "discipline_selected"
      [] state = "SELECT_DISCIPLINE" /\ data = Back("type") -> "type_selected"
      [] state = "SELECT_SEX" /\ data.kind = "sex" -> "sex_selected"
      [] state = "SELECT_SEX" /\ data = Back("disc") -> "discipline_selected"
      [] OTHER -> "none"

\* What a handler leaves: the state it returns, the keyboard of the message
\* it edited, the entry of the user in _user_event_type ("" for none), and
\* whether it committed a session.
Reply(returned, keyboard, event_type, stored) ==
    [returned |-> returned, keyboard |-> keyboard, event_type |-> event_type,
     stored |-> stored]

\* competition.py 193-226
get_by_event_type(comps, evs, discipline, sex, from_date) ==
    {c \in comps :
        /\ c.competition_date >= from_date
        /\ \E e \in EventsOf(evs, c.id) :
              /\ e.data.discipline = discipline
              /\ sex # "B" => e.data.sex = sex}

\* competition.py 228-235
get_by_exact_date(comps, target_date) ==
    {c \in comps : c.competition_date = target_date}

\* search.py 83-132
method_selected(data, keyboard, event_type, comps, today) ==
    IF data = Cancel THEN Reply("END", {}, event_type, FALSE)
    ELSE IF data.arg = "type"
    THEN Reply("SELECT_TYPE", get_event_type_keyboard, event_type, FALSE)
    ELSE IF data.arg = "date"
    THEN LET dates == {c.competition_date : c \in get_upcoming(comps, today)}
         IN IF dates = {} THEN Reply("END", {}, event_type, FALSE)
            ELSE Reply("SELECT_DATE", get_dates_keyboard(dates), event_type,
                       FALSE)
    ELSE Reply("END", keyboard, event_type, FALSE)

\* search.py 135-170
type_selected(data, event_type) ==
    IF data = Cancel THEN Reply("END", {}, event_type, FALSE)
    ELSE Reply("SELECT_DISCIPLINE",
               IF data.arg = "carrera" THEN get_track_events_keyboard
               ELSE get_field_events_keyboard,
               data.arg, FALSE)

\* search.py 173-208
discipline_selected(data, event_type) ==
    IF data = Cancel THEN Reply("END", {}, event_type, FALSE)
    ELSE IF data = Back("type")
    THEN Reply("SELECT_TYPE", get_event_type_keyboard, event_type, FALSE)
    ELSE Reply("SELECT_SEX", get_sex_keyboard(data.arg), event_type, FALSE)

\* search.py 211-340: the search for a discipline and sex; the results are
\* the events of that discipline and sex of the competitions found.
sex_selected(data, event_type, u, comps, evs, us, subs, d, today) ==
    IF data = Cancel THEN Reply("END", {}, event_type, FALSE)
    ELSE IF data = Back("disc")
    THEN Reply("SELECT_DISCIPLINE",
               IF (IF event_type = "" THEN "carrera" ELSE event_type) = "carrera"
               THEN get_track_events_keyboard
               ELSE get_field_events_keyboard,
               event_type, FALSE)
    ELSE LET found == get_by_event_type(comps, evs, data.arg, data.sex, today)
             results == {e \in UNION {EventsOf(evs, c.id) : c \in found} :
                            /\ e.data.discipline = data.arg
                            /\ data.sex = "B" \/ e.data.sex = data.sex}
             known == \E user \in us : user.id = u
             matching == Matching(subs, d, u, data.arg, data.sex)
         IN IF results = {} THEN Reply("END", {}, event_type, FALSE)
            ELSE IF known /\ Cardinality(matching) > 1
            THEN Reply("END", {}, "", FALSE)
            ELSE Reply("END",
                       subscription_keyboard(Cardinality(results))
                           \cup get_smart_subscription_keyboard(
                                   data.arg, data.sex,
                                   known /\ matching # {}),
                       "", FALSE)

\* search.py 343-394
date_selected(data, event_type, comps) ==
    IF data = Cancel THEN Reply("END", {}, event_type, FALSE)
    ELSE Reply("END",
               subscription_keyboard(
                   Cardinality(get_by_exact_date(comps, data.date))),
               event_type, FALSE)

\* search.py 397-409
cancel_handler(event_type) == Reply("END", {}, event_type, FALSE)

\* subscriptions.py 156-247: the tables after the button under the results
\* was pressed; nothing is committed when the user is unknown, when the
\* action is neither of the two or when the repository raises.
smart_subscribe_callback(data, u, us, subs, next_id, d) ==
    LET known == \E user \in us : user.id = u
        r == subscribe(subs, next_id, d, u, data.arg, data.sex)
    IN IF ~known
       THEN [subscriptions |-> subs, next_id |-> next_id, stored |-> FALSE]
       ELSE IF data.action = "sub"
       THEN IF r.raised
            THEN [subscriptions |-> subs, next_id |-> next_id, stored |-> FALSE]
            ELSE [subscriptions |-> r.subscriptions, next_id |-> r.next_id,
                  stored |-> TRUE]
       ELSE IF data.action = "unsub"
       THEN [subscriptions |-> unsubscribe(subs, d, u, data.arg,
                                           data.sex).subscriptions,
             next_id |-> next_id, stored |-> TRUE]
       ELSE [subscriptions |-> subs, next_id |-> next_id, stored |-> TRUE]

\* subscription.py 184-187: the sexes a button of the sex keyboard stands
\* for.
sexes(sex) == IF sex = "B" THEN <<"M", "F">> ELSE <<sex>>

\* subscription.py 189-201: the user is subscribed to the discipline for
\* each of the sexes in turn.
RECURSIVE SubscribeEach(_, _, _, _, _, _)
SubscribeEach(subs, next_id, d, u, discipline, ss) ==
    IF ss = <<>>
    THEN [subscriptions |-> subs, next_id |-> next_id, raised |-> FALSE]
    ELSE LET r == subscribe(subs, next_id, d, u, discipline, Head(ss))
         IN IF r.raised
            THEN [subscriptions |-> subs, next_id |-> next_id, raised |-> TRUE]
            ELSE SubscribeEach(r.subscriptions, r.next_id, d, u, discipline,
                               Tail(ss))

\* subscription.py 131-217: sex_selected of the subscription conversation,
\* with the entry of the user in the _user_event_type of that module.
subscription_sex_selected(data, event_type, u, us, subs, next_id, d) ==
    LET known == \E user \in us : user.id = u
        r == SubscribeEach(subs, next_id, d, u, data.arg, sexes(data.sex))
        kept == [subscriptions |-> subs, next_id |-> next_id]
    IN IF data = Cancel
       THEN kept @@ Reply("END", {}, event_type, FALSE)
       ELSE IF data = Back("disc")
       THEN kept @@ Reply("SELECT_DISCIPLINE",
                          IF (IF event_type = "" THEN "carrera"
                              ELSE event_type) = "carrera"
                          THEN get_track_events_keyboard
                          ELSE get_field_events_keyboard,
                          event_type, FALSE)
       ELSE IF ~known THEN kept @@ Reply("END", {}, event_type, FALSE)
       ELSE IF r.raised THEN kept @@ Reply("END", {}, "", FALSE)
       ELSE [subscriptions |-> r.subscriptions, next_id |-> r.next_id]
                @@ Reply("END", {}, "", TRUE)

\* The conversations: per user the state of the search conversation, the
\* keyboard under the last message of the bot and the entry of
\* search._user_event_type; chosen is the event type the user picked with a
\* type button in the running conversation; last is the handler that ran.
NoHandler ==
    [handler |-> "none", user |-> 0, data |-> Cancel, from |-> "END",
     returned |-> "END", keyboard |-> {}, stored |-> FALSE]

NoChat ==
    [state |-> [u \in UserIds |-> "END"],
     keyboard |-> [u \in UserIds |-> {}],
     user_event_type |-> [u \in UserIds |-> ""],
     chosen |-> [u \in UserIds |-> ""],
     today |-> 0,
     last |-> NoHandler]

\* The conversations after a handler of the search conversation ran for
\* the user.
Handled(handler, u, data, r) ==
    [chat EXCEPT !.state[u] = r.returned,
                 !.keyboard[u] = r.keyboard,
                 !.user_event_type[u] = r.event_type,
                 !.chosen[u] = IF handler = "type_selected" /\ data.kind = "type"
                               THEN data.arg ELSE @,
                 !.last = [handler |-> handler, user |-> u, data |-> data,
                           from |-> chat.state[u], returned |-> r.returned,
                           keyboard |-> r.keyboard, stored |-> r.stored]]

BotUnchanged ==
    UNCHANGED <<dbvars, call, jobvars, parsing, users, subscriptions,
                nextSubscriptionId, svc, wanted, notify, calendar>>

\* search.py 65-80: /buscar starts the conversation, or starts it again.
SearchCommand ==
    /\ \E u \in ChatUsers :
          chat' = [chat EXCEPT
                      !.state[u] = "SELECT_METHOD",
                      !.keyboard[u] = get_search_method_keyboard,
                      !.chosen[u] = "",
                      !.last = [NoHandler EXCEPT
                                   !.handler = "search_command", !.user = u,
                                   !.from = chat.state[u],
                                   !.returned = "SELECT_METHOD",
                                   !.keyboard = get_search_method_keyboard]]
    /\ BotUnchanged

\* A user presses a button of the keyboard shown and main.py 73-103 gives
\* it to method_selected.
MethodSelected ==
    /\ \E u \in ChatUsers : \E data \in chat.keyboard[u] :
          /\ search_conv(chat.state[u], data) = "method_selected"
          /\ chat' = Handled("method_selected", u, data,
                             method_selected(data, chat.keyboard[u],
                                             chat.user_event_type[u],
                                             competitions, chat.today))
    /\ BotUnchanged

TypeSelected ==
    /\ \E u \in ChatUsers : \E data \in chat.keyboard[u] :
          /\ search_conv(chat.state[u], data) = "type_selected"
          /\ chat' = Handled("type_selected", u, data,
                             type_selected(data, chat.user_event_type[u]))
    /\ BotUnchanged

DisciplineSelected ==
    /\ \E u \in ChatUsers : \E data \in chat.keyboard[u] :
          /\ search_conv(chat.state[u], data) = "discipline_selected"
          /\ chat' = Handled("discipline_selected", u, data,
                             discipline_selected(data,
                                                 chat.user_event_type[u]))
    /\ BotUnchanged

SexSelected ==
    /\ \E u \in ChatUsers : \E data \in chat.keyboard[u] :
          /\ search_conv(chat.state[u], data) = "sex_selected"
          /\ chat' = Handled("sex_selected", u, data,
                             sex_selected(data, chat.user_event_type[u], u,
                                          competitions, events, users,
                                          subscriptions, dialect, chat.today))
    /\ BotUnchanged

DateSelected ==
    /\ \E u \in ChatUsers : \E data \in chat.keyboard[u] :
          /\ search_conv(chat.state[u], data) = "date_selected"
          /\ chat' = Handled("date_selected", u, data,
                             date_selected(data, chat.user_event_type[u],
                                           competitions))
    /\ BotUnchanged

CancelHandler ==
    /\ \E u \in ChatUsers : \E data \in chat.keyboard[u] :
          /\ search_conv(chat.state[u], data) = "cancel_handler"
          /\ chat' = Handled("cancel_handler", u, data,
                             cancel_handler(chat.user_event_type[u]))
    /\ BotUnchanged

\* main.py 115: the button under the results of a search is pressed, in
\* whatever state the search conversation of the user is.
SmartSubscribeCallback ==
    /\ \E u \in ChatUsers : \E data \in chat.keyboard[u] :
          /\ data.kind = "smart_sub"
          /\ \E r \in {smart_subscribe_callback(data, u, users, subscriptions,
                                                nextSubscriptionId, dialect)} :
                /\ r.next_id <= MaxSubscriptions + 1
                /\ subscriptions' = r.subscriptions
                /\ nextSubscriptionId' = r.next_id
                /\ chat' = Handled("smart_subscribe_callback", u, data,
                                   Reply(chat.state[u], {},
                                         chat.user_event_type[u], r.stored))
    /\ UNCHANGED <<dbvars, call, jobvars, parsing, users, svc, wanted, notify,
                   calendar>>

\* A button of the sex keyboard of the subscription conversation is pressed
\* (subscription.py 131-217). main.py registers no handler of that module,
\* so the state it returns moves no conversation of the application.
SubscriptionSexSelected ==
    /\ \E u \in ChatUsers, discipline \in TrackDisciplines \cup FieldDisciplines,
          event_type \in {"", "carrera", "concurso"} :
          \E data \in get_sex_keyboard(discipline) :
             \E r \in {subscription_sex_selected(data, event_type, u, users,
                                                 subscriptions,
                                                 nextSubscriptionId, dialect)} :
                /\ r.next_id <= MaxSubscriptions + 1
                /\ subscriptions' = r.subscriptions
                /\ nextSubscriptionId' = r.next_id
                /\ chat' = [chat EXCEPT
                               !.last = [handler |-> "subscription.sex_selected",
                                         user |-> u, data |-> data,
                                         from |-> "SELECT_SEX",
                                         returned |-> r.returned,
                                         keyboard |-> r.keyboard,
                                         stored |-> r.stored]]
    /\ UNCHANGED <<dbvars, call, jobvars, parsing, users, svc, wanted, notify,
                   calendar>>

\* ---------------------------------------------------------------- specifications
\* No call of the calendar parser and no conversation with the bot.
OthersIdle == calendar = NoCalendar /\ chat = NoChat

\* No user, no subscription, no call of the subscription repository.
NoSubscriptions ==
    /\ users = {}
    /\ subscriptions = {}
    /\ nextSubscriptionId = 1
    /\ svc = NoSvc
    /\ wanted = {}
    /\ notify = IdleNotify

EmptyDB == [competitions |-> {}, events |-> {}, nextCompetitionId |-> 1,
            nextEventId |-> 1, notificationLogs |-> {}]

\* The tables after two competitions were stored: one from its calendar row
\* alone, dated the first of January, one from its document, with two
\* additional dates.
StoredDB ==
    LET first == upsert_with_hash(
                    EmptyDB,
                    Args(FirstUrl, FirstName,
                         CHOOSE d \in Documents : d.pdf_hash = None,
                         CHOOSE r \in CalendarRows :
                             r.fechas_adicionales.none))
    IN upsert_with_hash(first.db,
                        Args("https://fam/b.pdf", "Trofeo", FirstDocument,
                             SecondRow)).db

Init ==
    /\ competitions = {}
    /\ events = {}
    /\ nextCompetitionId = 1
    /\ nextEventId = 1
    /\ notificationLogs = {}
    /\ dialect \in Dialects
    /\ call = NoCall
    /\ pc = "idle"
    /\ job = IdleJob
    /\ errorLogs = <<>>
    /\ committed = Snapshot({}, {}, {}, <<>>)
    /\ parsing = NoParse
    /\ NoSubscriptions
    /\ OthersIdle

Next ==
    \/ CallUpsert
    \/ CallDeletePast

Spec == Init /\ [][Next]_vars

\* A run of the job over tables that are empty or hold what earlier calls
\* stored and committed.
InitJob ==
    /\ \E db \in {EmptyDB, StoredDB} :
          /\ competitions = db.competitions
          /\ events = db.events
          /\ nextCompetitionId = db.nextCompetitionId
          /\ nextEventId = db.nextEventId
          /\ notificationLogs = db.notificationLogs
          /\ committed = Snapshot(db.competitions, db.events, {}, <<>>)
    /\ dialect \in Dialects
    /\ call = NoCall
    /\ pc = "idle"
    /\ job = IdleJob
    /\ errorLogs = <<>>
    /\ parsing = NoParse
    /\ NoSubscriptions
    /\ OthersIdle

NextJob ==
    \/ StartJob
    \/ ScrapeMonth
    \/ CommitRun
    \/ Cleanup
    \/ SessionExit
    \/ Fatal
    \/ Return

SpecJob == InitJob /\ [][NextJob]_vars

\* The job is one coroutine that the event loop runs to its end: every
\* request has a timeout and every loop is over a finite list.
SpecJobFair == SpecJob /\ WF_vars(NextJob)

\* The parser applied to one document, the tables empty and no job running.
InitParse ==
    /\ competitions = {}
    /\ events = {}
    /\ nextCompetitionId = 1
    /\ nextEventId = 1
    /\ notificationLogs = {}
    /\ dialect = "sqlite"
    /\ call = NoCall
    /\ pc = "idle"
    /\ job = IdleJob
    /\ errorLogs = <<>>
    /\ committed = Snapshot({}, {}, {}, <<>>)
    /\ \E d \in ParseInputs, month \in TodayMonths :
          parsing = [NoParse EXCEPT !.state = "pending", !.document = d,
                                    !.today = TodayOf(month)]
    /\ NoSubscriptions
    /\ OthersIdle

NextParse == Parse

SpecParse == InitParse /\ [][NextParse]_vars

\* The handlers of the bot subscribe and unsubscribe two stored users.
InitSubscriptions ==
    /\ competitions = {}
    /\ events = {}
    /\ nextCompetitionId = 1
    /\ nextEventId = 1
    /\ notificationLogs = {}
    /\ dialect \in Dialects
    /\ call = NoCall
    /\ pc = "idle"
    /\ job = IdleJob
    /\ errorLogs = <<>>
    /\ committed = Snapshot({}, {}, {}, <<>>)
    /\ parsing = NoParse
    /\ users = {[id |-> u, is_active |-> TRUE] : u \in UserIds}
    /\ subscriptions = {}
    /\ nextSubscriptionId = 1
    /\ svc = NoSvc
    /\ wanted = {}
    /\ notify = IdleNotify
    /\ OthersIdle

NextSubscriptions ==
    \/ Subscribe
    \/ Unsubscribe

SpecSubscriptions == InitSubscriptions /\ [][NextSubscriptions]_vars

\* The tables the notification job runs over: a competition of 1 January
\* without events, one of 17 January with the 60 m for men, one of 18
\* January with the high jump for women and the 60 m for men.
NotifyDB ==
    upsert_with_hash(StoredDB,
                     Args("https://fam/b.pdf", "Copa",
                          CHOOSE d \in Documents : d.pdf_hash = "h2",
                          SecondRow)).db

\* The subscriptions stored when the job runs.
StoredSubscriptions ==
    {[id |-> 1, user_id |-> 1, discipline |-> "60", sex |-> "M"],
     [id |-> 2, user_id |-> 1, discipline |-> "ALTURA", sex |-> "F"],
     [id |-> 3, user_id |-> 2, discipline |-> "60", sex |-> "M"]}

\* The notification job runs over the stored competitions; the second user
\* may have blocked the bot.
InitNotify ==
    /\ competitions = NotifyDB.competitions
    /\ events = NotifyDB.events
    /\ nextCompetitionId = NotifyDB.nextCompetitionId
    /\ nextEventId = NotifyDB.nextEventId
    /\ notificationLogs = {}
    /\ committed = Snapshot(NotifyDB.competitions, NotifyDB.events, {}, <<>>)
    /\ dialect \in Dialects
    /\ call = NoCall
    /\ pc = "idle"
    /\ job = IdleJob
    /\ errorLogs = <<>>
    /\ parsing = NoParse
    /\ \E active \in BOOLEAN :
          users = {[id |-> 1, is_active |-> TRUE], [id |-> 2, is_active |-> active]}
    /\ subscriptions = StoredSubscriptions
    /\ nextSubscriptionId = Cardinality(StoredSubscriptions) + 1
    /\ svc = NoSvc
    /\ wanted = {Triple(s.user_id, s.discipline, s.sex) : s \in subscriptions}
    /\ notify = IdleNotify
    /\ OthersIdle

NextNotify ==
    \/ StartNotification
    \/ TomorrowPass
    \/ UpcomingPass
    \/ ReturnNotification

SpecNotify == InitNotify /\ [][NextNotify]_vars

\* The same job on SQLite with both users active, run once more than
\* MaxRuns times: a run and the run after it.
InitNotifyAgain ==
    /\ competitions = NotifyDB.competitions
    /\ events = NotifyDB.events
    /\ nextCompetitionId = NotifyDB.nextCompetitionId
    /\ nextEventId = NotifyDB.nextEventId
    /\ notificationLogs = {}
    /\ committed = Snapshot(NotifyDB.competitions, NotifyDB.events, {}, <<>>)
    /\ dialect = "sqlite"
    /\ call = NoCall
    /\ pc = "idle"
    /\ job = IdleJob
    /\ errorLogs = <<>>
    /\ parsing = NoParse
    /\ users = {[id |-> 1, is_active |-> TRUE], [id |-> 2, is_active |-> TRUE]}
    /\ subscriptions = StoredSubscriptions
    /\ nextSubscriptionId = Cardinality(StoredSubscriptions) + 1
    /\ svc = NoSvc
    /\ wanted = {Triple(s.user_id, s.discipline, s.sex) : s \in subscriptions}
    /\ notify = [IdleNotify EXCEPT !.max_runs = MaxRuns + 1]
    /\ OthersIdle

SpecNotifyAgain == InitNotifyAgain /\ [][NextNotify]_vars

\* The calendar parser applied to one fragment, and the dates of one entry
\* of a month the job scrapes; the tables empty and no job running.
InitCalendar ==
    /\ competitions = {}
    /\ events = {}
    /\ nextCompetitionId = 1
    /\ nextEventId = 1
    /\ notificationLogs = {}
    /\ dialect = "sqlite"
    /\ call = NoCall
    /\ pc = "idle"
    /\ job = IdleJob
    /\ errorLogs = <<>>
    /\ committed = Snapshot({}, {}, {}, <<>>)
    /\ parsing = NoParse
    /\ NoSubscriptions
    /\ chat = NoChat
    /\ \E m \in TodayMonths, i \in 1..2 :
          LET target == get_current_and_next_months(TodayOf(m))[i]
              asked == [NoCalendar EXCEPT !.state = "pending",
                                          !.month = target[1],
                                          !.year = target[2],
                                          !.today = TodayOf(m)]
          IN \/ \E page \in Fragments \cup {NoTablePage} :
                   calendar = [asked EXCEPT !.op = "parse_calendar_html",
                                            !.page = page]
             \/ \E t \in DateTexts :
                   calendar = [asked EXCEPT !.op = "_extract_additional_dates",
                                            !.date_text = t]

NextCalendar == ParseCalendarHtml \/ EntryDates

SpecCalendar == InitCalendar /\ [][NextCalendar]_vars

\* The bot over the stored competitions on one of the days the job runs on;
\* the user who talks to it is stored and has no subscription.
InitBot ==
    /\ competitions = NotifyDB.competitions
    /\ events = NotifyDB.events
    /\ nextCompetitionId = NotifyDB.nextCompetitionId
    /\ nextEventId = NotifyDB.nextEventId
    /\ notificationLogs = {}
    /\ committed = Snapshot(NotifyDB.competitions, NotifyDB.events, {}, <<>>)
    /\ dialect = "sqlite"
    /\ call = NoCall
    /\ pc = "idle"
    /\ job = IdleJob
    /\ errorLogs = <<>>
    /\ parsing = NoParse
    /\ users = {[id |-> 1, is_active |-> TRUE]}
    /\ subscriptions = {}
    /\ nextSubscriptionId = 1
    /\ svc = NoSvc
    /\ wanted = {}
    /\ notify = IdleNotify
    /\ calendar = NoCalendar
    /\ \E today \in NotifyDays : chat = [NoChat EXCEPT !.today = today]

NextBot ==
    \/ SearchCommand
    \/ MethodSelected
    \/ TypeSelected
    \/ DisciplineSelected
    \/ SexSelected
    \/ DateSelected
    \/ CancelHandler
    \/ SmartSubscribeCallback
    \/ SubscriptionSexSelected

SpecBot == InitBot /\ [][NextBot]_vars

\* ================================================================ claims
\* The rows stored before the last call under the identity it was called for.
StoredBefore == {c \in call.pre.competitions :
                    c.pdf_url = call.args.pdf_url /\ c.name = call.args.name}

Returned == call.op = "upsert_with_hash" /\ ~call.raised

\* The last call found its identity stored with the hash and the enrollment
\* URL it was called with.
CalledUnchanged ==
    /\ Returned
    /\ \E c \in StoredBefore : Unchanged(c, call.args)

\* The last call found its identity stored with another hash or another
\* enrollment URL.
CalledChanged ==
    /\ Returned
    /\ \E c \in StoredBefore : ~Unchanged(c, call.args)

\* The last call found nothing stored under its (pdf_url, name) pair.
CalledAbsent ==
    /\ Returned
    /\ call.args.pdf_url # None
    /\ StoredBefore = {}

\* The event data stored for a competition, in id order.
EventData(evs, competition_id) ==
    LET mine == EventsOf(evs, competition_id)
        ids == SortedSet({e.id : e \in mine})
    IN [i \in 1..Len(ids) |-> (CHOOSE e \in mine : e.id = ids[i]).data]

SameScalars(c, a) ==
    /\ c.pdf_url = a.pdf_url
    /\ c.pdf_hash = a.pdf_hash
    /\ c.name = a.name
    /\ c.competition_date = a.competition_date
    /\ c.location = a.location
    /\ c.has_modifications = a.has_modifications
    /\ c.competition_type = a.competition_type
    /\ c.enrollment_url = a.enrollment_url

\* C1: a call for a stored (pdf_url, name) pair whose incoming hash and
\* enrollment URL equal the stored ones returns the existing competition with
\* flag False and leaves every stored competition and event as it was.
C1_UnchangedIsNoOp ==
    CalledUnchanged =>
        /\ call.flag = FALSE
        /\ \A c \in StoredBefore : call.id = c.id
        /\ competitions = call.pre.competitions
        /\ events = call.pre.events

\* C1 witness: the no-op branch ran for a call whose date, events and
\* additional dates were not the stored ones.
C1_Witness ==
    /\ CalledUnchanged
    /\ \E c \in StoredBefore :
          /\ c.competition_date # call.args.competition_date
          /\ EventsOf(call.pre.events, c.id) # {}
          /\ ~c.fechas_adicionales.none

\* C2 (as claimed): a call for a stored pair with another hash or enrollment
\* URL keeps the id, returns flag True, and leaves every scalar field and the
\* additional dates equal to the incoming ones, none when none came in.
C2_UpdateSetsFieldsAndDates ==
    CalledChanged =>
        /\ call.flag = TRUE
        /\ \A c \in StoredBefore : call.id = c.id
        /\ \E c \in competitions :
              /\ c.id = call.id
              /\ SameScalars(c, call.args)
              /\ Range(fechas_adicionales_list(c))
                    = Range(call.args.fechas_adicionales.items)

C4_CreateStoresCompetition ==
    CalledAbsent =>
        /\ call.flag = TRUE
        /\ \E c \in competitions :
              /\ competitions = call.pre.competitions \cup {c}
              /\ c \notin call.pre.competitions
              /\ c.id = call.id
              /\ \A o \in call.pre.competitions : o.id # c.id
              /\ SameScalars(c, call.args)
              /\ Range(fechas_adicionales_list(c))
                    = Range(call.args.fechas_adicionales.items)
              /\ EventData(events, c.id) = call.args.events.items
              /\ events \ EventsOf(events, c.id) = call.pre.events

\* C4 witness: a competition with two events and two additional dates was
\* created next to a stored one.
C4_Witness ==
    /\ CalledAbsent
    /\ call.pre.competitions # {}
    /\ Len(call.args.events.items) = 2
    /\ Len(call.args.fechas_adicionales.items) = 2

\* A competition stored before the last call that shares exactly one half of
\* the identity the call was made for.
SharesHalf(c) ==
    \/ c.pdf_url = call.args.pdf_url /\ c.name # call.args.name
    \/ c.pdf_url # call.args.pdf_url /\ c.name = call.args.name

\* C5: a call whose pair differs from a stored competition's pair in the name
\* only or in the pdf_url only creates its own competition: flag True, an id
\* different from the stored one, and the stored competition and its events
\* untouched.
C5_IdentityIsThePair ==
    \A c \in call.pre.competitions :
        (CalledAbsent /\ SharesHalf(c)) =>
            /\ call.flag = TRUE
            /\ call.id # c.id
            /\ c \in competitions
            /\ EventsOf(events, c.id) = EventsOf(call.pre.events, c.id)

\* C5 witness: both kinds of neighbour were stored when the call created its
\* competition.
C5_Witness ==
    /\ CalledAbsent
    /\ \E c \in call.pre.competitions :
          c.pdf_url = call.args.pdf_url /\ c.name # call.args.name
    /\ \E c \in call.pre.competitions :
          c.pdf_url # call.args.pdf_url /\ c.name = call.args.name

\* The last call came with the stored hash and with another enrollment URL
\* and another has_modifications than stored.
CalledWithNewEnrollment ==
    /\ Returned
    /\ \E c \in StoredBefore :
          /\ c.pdf_hash = call.args.pdf_hash
          /\ c.enrollment_url # call.args.enrollment_url
          /\ c.has_modifications # call.args.has_modifications

PageOf(mi) == job.fetched[mi].response

\* The rows of that page that are calendar entries: five cells, a name and a
\* document link.
EntryRows(mi) ==
    {j \in DOMAIN PageOf(mi).rows : IsCompetitionRow(PageOf(mi).rows[j])}

\* The durable error log holds a row for the mi-th target month.
LoggedAgainstMonth(mi) ==
    \E i \in DOMAIN committed.errorLogs :
        /\ committed.errorLogs[i].text = "Error scrapeando mes"
        /\ committed.errorLogs[i].month = job.months[mi][1]
        /\ committed.errorLogs[i].year = job.months[mi][2]

\* The durable error log holds a row for the entry, under its own name or
\* under the month it belongs to.
LoggedForEntry(mi, j) ==
    \/ LoggedAgainstMonth(mi)
    \/ \E i \in DOMAIN committed.errorLogs :
          committed.errorLogs[i].name = PageOf(mi).rows[j].name

\* C7: when the run has returned, every calendar entry whose processing
\* raised has a row in the error log and was counted, every later entry of
\* its month was processed, and every later target month was fetched.
C7_EntryFailureIsIsolated ==
    pc = "done" =>
        \A k \in job.failed :
            /\ LoggedForEntry(k[1], k[2])
            /\ job.stats.errors >= 1
            /\ \A j \in EntryRows(k[1]) : j > k[2] => <<k[1], j>> \in job.processed
            /\ \A mi \in DOMAIN job.months : mi > k[1] => mi \in DOMAIN job.fetched

\* C8: when the run has returned, every target month whose calendar could
\* not be fetched or extracted has a row in the error log against it, none
\* of its entries was processed, and the target month after it was fetched.
C8_MonthFailureIsIsolated ==
    pc = "done" =>
        \A mi \in DOMAIN job.fetched :
            job.fetched[mi].raised =>
                /\ LoggedAgainstMonth(mi)
                /\ \A k \in job.processed : k[1] # mi
                /\ \A mj \in DOMAIN job.months : mj > mi => mj \in DOMAIN job.fetched

\* C9: when the run has returned without reaching the handler of the outer
\* try, every calendar entry with a PDF link whose document was not parsed
\* was upserted from its row and was not counted as an error.
C9_FailedDocumentStillUpserted ==
    (pc = "done" /\ job.fatal = "none") =>
        \A mi \in DOMAIN job.fetched :
            \A j \in EntryRows(mi) :
                <<mi, j>> \notin job.parsed =>
                    /\ <<mi, j>> \in job.upserted
                    /\ <<mi, j>> \notin job.failed

\* C10: no exception leaves scraping_job, and every run reaches the return
\* of the statistics, whichever fetches, downloads, parses, database writes
\* and error-log writes fail.
C10_RunReturnsStats == [](pc # "escaped") /\ <>(pc = "done")

\* A run returned its statistics after an exception left the session block
\* and the write of the handler of the outer try failed as well.
C10_Witness ==
    /\ pc = "done"
    /\ job.fatal = "unlogged"
    /\ job.stats.errors >= 2

\* The target months whose calendar was fetched and extracted, the entries
\* extracted from them, and the entries whose loop pass raised.
ExtractedMonths == {mi \in DOMAIN job.fetched : ~job.fetched[mi].raised}
ExtractedEntries ==
    UNION {{<<mi, j>> : j \in EntryRows(mi)} : mi \in ExtractedMonths}
FailedEntries == job.failed \cap job.processed
HandlerRuns ==
    Cardinality(job.aborted) + Cardinality(FailedEntries)
        + (IF job.cleanup = "failed" THEN 1 ELSE 0)

\* C12 as claimed: when the run has returned, months_scraped is the number
\* of months fetched and extracted, competitions_found the number of entries
\* extracted from them, competitions_new the number of entries whose upsert
\* returned True, and errors the number of failed months plus failed entries
\* plus failed cleanup steps.
C12_StatsCountTheRun ==
    pc = "done" =>
        /\ job.stats.months_scraped = Cardinality(ExtractedMonths)
        /\ job.stats.competitions_found = Cardinality(ExtractedEntries)
        /\ job.stats.competitions_new = Cardinality(job.changed)
        /\ job.stats.errors = HandlerRuns

\* C12 amended: the same counts, with errors counting one more when an
\* exception left the session block and reached the handler of the outer
\* try.
C12_StatsCountTheRunAndTheFatalError ==
    pc = "done" =>
        /\ job.stats.months_scraped = Cardinality(ExtractedMonths)
        /\ job.stats.competitions_found = Cardinality(ExtractedEntries)
        /\ job.stats.competitions_new = Cardinality(job.changed)
        /\ job.stats.errors = HandlerRuns + (IF job.fatal # "none" THEN 1 ELSE 0)

\* A run returned after one month was extracted, another failed, and an
\* exception reached the handler of the outer try.
C12_Witness ==
    /\ pc = "done"
    /\ job.stats.months_scraped >= 1
    /\ job.aborted # {}
    /\ job.fatal # "none"

\* ---------------------------------------------------------------- cleanup
\* The competitions stored before the last call that are dated before the
\* day it was called with.
PastBefore ==
    {c \in call.pre.competitions : c.competition_date < call.before_date}

\* C15: after delete_past_competitions(d) the stored competitions are those
\* stored before that are dated d or later, the stored events are those of
\* these competitions, and the result is the number of competitions that were
\* dated before d.
C15_DeletePastDeletesWithEvents ==
    call.op = "delete_past_competitions" =>
        /\ competitions = call.pre.competitions \ PastBefore
        /\ events = {e \in call.pre.events :
                        e.competition_id \notin {c.id : c \in PastBefore}}
        /\ call.rowcount = Cardinality(PastBefore)

\* ---------------------------------------------------------------- dates
\* The dates held by the column fechas_adicionales of a competition.
StoredAdditionalDates(c) ==
    {strptime(c.fechas_adicionales.items[i]) :
        i \in DOMAIN c.fechas_adicionales.items}

\* C16: for every stored competition todas_las_fechas is strictly ascending
\* (sorted, no date twice), contains competition_date, and its dates are
\* competition_date and the stored additional dates.
C16_AllDatesSortedAndUnique ==
    \A c \in competitions :
        LET all == todas_las_fechas(c)
        IN /\ \A i, j \in DOMAIN all : i < j => all[i] < all[j]
           /\ c.competition_date \in Range(all)
           /\ Range(all) = {c.competition_date} \cup StoredAdditionalDates(c)

\* A competition is stored whose additional dates repeat its own date and
\* add a later one.
C16_Witness ==
    \E c \in competitions :
        /\ c.competition_date \in StoredAdditionalDates(c)
        /\ Cardinality(StoredAdditionalDates(c)) >= 2


\* ---------------------------------------------------------------- documents
\* C19: when the run has returned without reaching the handler of the outer
\* try, every calendar entry of every fetched page went through the loop
\* step that downloads its document, and every entry whose document was
\* parsed was new or changed, so its upsert returned True or it failed.
C19_EntriesDownloadedParsedOnlyIfChanged ==
    (pc = "done" /\ job.fatal = "none") =>
        \A mi \in DOMAIN job.fetched :
            \A j \in EntryRows(mi) :
                /\ <<mi, j>> \in job.processed
                /\ <<mi, j>> \in job.parsed =>
                       <<mi, j>> \in job.changed \cup job.failed

\* ---------------------------------------------------------------- months
\* C20: the months of a run are two pairs, the month of today and its
\* successor, January of the next year after December, each month in 1..12,
\* and when the run has returned each of the two was fetched once, in this
\* order.
C20_TwoMonthsScrapedOnceEach ==
    pc = "done" =>
        /\ Len(job.months) = 2
        /\ \A mi \in 1..2 : job.months[mi][1] \in 1..12
        /\ job.months[2] = IF job.months[1][1] = 12
                           THEN <<1, job.months[1][2] + 1>>
                           ELSE <<job.months[1][1] + 1, job.months[1][2]>>
        /\ DOMAIN job.fetched = 1..2


\* ---------------------------------------------------------------- parser
\* C17: every event of a document that parse returned has a discipline that
\* is not the empty string and the sex M or F.
C17_EventsHaveDisciplineAndSex ==
    (parsing.state = "returned" /\ ~parsing.raised) =>
        \A i \in DOMAIN parsing.events :
            /\ parsing.events[i].discipline # <<>>
            /\ parsing.events[i].sex \in {"M", "F"}


\* C21: parse raises PDFParserError only for a document that cannot be
\* opened; for every document that opens it returns a Competition, whose
\* event list is empty when the document has no table and no text, whose
\* date is today's when no date is extracted and whose venue is the default
\* one when no venue is extracted.
C21_ParseRaisesOnlyWhenUnopened ==
    parsing.state = "returned" =>
        /\ parsing.raised <=> ~parsing.document.readable
        /\ ~parsing.raised =>
            /\ (parsing.document.tables = <<>> /\ parsing.document.text = <<>>)
                   => parsing.events = <<>>
            /\ parsing.document.date = NoDatePhrase
                   => parsing.competition_date =
                          DateOf(parsing.today.year, parsing.today.month,
                                 parsing.today.day)
            /\ parsing.document.venue = ""
                   => parsing.location = DefaultLocation


\* ---------------------------------------------------------------- subscriptions
\* The subscriptions a set of rows stands for.
TriplesOf(subs) == {Triple(s.user_id, s.discipline, s.sex) : s \in subs}

\* The subscription the last call named.
CalledTriple == Triple(svc.user_id, svc.discipline, svc.sex)

\* C18: after every call of subscribe and unsubscribe the rows stand for
\* exactly the subscriptions subscribed and not unsubscribed since, one row
\* for each; subscribe returned True exactly when the subscription was
\* absent and otherwise left the rows as they were, unsubscribe returned
\* True exactly when it was present, and no row of another subscription
\* changed.
C18_SubscriptionsAreTheTriples ==
    /\ TriplesOf(subscriptions) = wanted
    /\ \A s, t \in subscriptions :
           Triple(s.user_id, s.discipline, s.sex)
               = Triple(t.user_id, t.discipline, t.sex) => s = t
    /\ svc.op = "subscribe" =>
           /\ ~svc.raised
           /\ svc.flag <=> CalledTriple \notin svc.wanted
           /\ ~svc.flag => subscriptions = svc.pre
    /\ svc.op = "unsubscribe" =>
           svc.flag <=> CalledTriple \in svc.wanted
    /\ svc.op # "none" =>
           \A s \in subscriptions \cup svc.pre :
               Triple(s.user_id, s.discipline, s.sex) # CalledTriple =>
                   (s \in subscriptions <=> s \in svc.pre)


\* ---------------------------------------------------------------- notifications
\* C13: no user is sent an event again once a notification of that event
\* was sent to the user and its log row was written, in a later pass of the
\* same run or in a later run.
C13_NoSecondNotification == notify.resent = {}

\* The event row and the competition row of a pair of user and event.
EventOf(p) == CHOOSE e \in events : e.id = p[2]
CompetitionOf(p) == CHOOSE c \in competitions : c.id = EventOf(p).competition_id

LoggedPairs == {<<l.user_id, l.event_id>> : l \in notificationLogs}

\* A run after the first one went through its second pass.
NextRunDone ==
    notify.runs > 1 /\ notify.pc = "return" /\ notify.bot /\ ~notify.aborted

C28_OneConsolidatedMessagePerRun ==
    /\ \A u \in UserIds : notify.messages[u] <= 1
    /\ (notify.runs = 1 /\ notify.pc = "upcoming") =>
          \A u \in {p[1] : p \in notify.sent} :
              {p \in notify.sent : p[1] = u}
                  = {p \in Subscribed(get_upcoming(competitions, notify.today),
                                      events, users, subscriptions, dialect) :
                        p[1] = u}

\* ---------------------------------------------------------------- calendar calls
\* A row with a highlight background style.
Highlighted(row) == row.style \in {"#EBFFAA", "yellow"}

\* C22: parse_calendar_html of a fragment whose table has three data rows,
\* each with a name and a document link, returns three entries, and
\* has_modifications is true on exactly the rows with a highlight style.
C22_ThreeEntriesHighlightedFlagged ==
    (/\ calendar.state = "returned"
     /\ calendar.op = "parse_calendar_html"
     /\ Len(calendar.page.rows) = 3
     /\ \A i \in 1..3 : IsCompetitionRow(calendar.page.rows[i]))
    => /\ ~calendar.raised
       /\ Len(calendar.entries) = 3
       /\ \A i \in 1..3 :
             calendar.entries[i].raw.has_modifications
                 <=> Highlighted(calendar.page.rows[i])

\* C23: for a date text D1yD2.MM scraped for month M of year Y the date of
\* the competition is day D1 of month MM of year Y and the additional dates
\* are exactly day D2 of month MM of year Y; a text with one day gives no
\* additional date.
C23_DatesOfTheScrapedYear ==
    (calendar.state = "returned" /\ calendar.op = "_extract_additional_dates")
    => LET t == calendar.date_text
       IN IF Len(t.days) = 2
          THEN /\ calendar.comp_date = DateOf(calendar.year, t.month, t.days[1])
               /\ {DateOf(d.year, d.month, d.day) : d \in Range(calendar.dates)}
                      = {DateOf(calendar.year, t.month, t.days[2])}
          ELSE calendar.dates = <<>>

\* ---------------------------------------------------------------- claims: bot conversations
\* C29: every stored subscription has sex M or F, and after 'both' was
\* chosen for a discipline, on the sex keyboard of the subscription
\* conversation or with the subscribe button under the results of a search,
\* and the handler committed, the user is subscribed to the discipline for
\* M and for F.
C29_BothStoresMaleAndFemale ==
    /\ \A s \in subscriptions : s.sex \in {"M", "F"}
    /\ ( /\ chat.last.handler \in {"subscription.sex_selected",
                                   "smart_subscribe_callback"}
         /\ chat.last.data.sex = "B"
         /\ chat.last.data.action # "unsub"
         /\ chat.last.stored )
       => \A sex \in {"M", "F"} :
             \E s \in subscriptions : /\ s.user_id = chat.last.user
                                      /\ s.discipline = chat.last.data.arg
                                      /\ s.sex = sex

\* C30: in the search conversation of main.py, 'back' pressed in SELECT_SEX
\* leaves the user in SELECT_DISCIPLINE with the disciplines of the event
\* type that user picked, and 'back' pressed in SELECT_DISCIPLINE leaves the
\* user in SELECT_TYPE with the keyboard of event types.
C30_BackMovesToPreviousStep ==
    LET u == chat.last.user
        pressed(step, state) == /\ chat.last.handler # "subscription.sex_selected"
                                /\ chat.last.data = Back(step)
                                /\ chat.last.from = state
    IN /\ pressed("disc", "SELECT_SEX") =>
             /\ chat.state[u] = "SELECT_DISCIPLINE"
             /\ chat.chosen[u] = "carrera" =>
                   chat.keyboard[u] = get_track_events_keyboard
             /\ chat.chosen[u] = "concurso" =>
                   chat.keyboard[u] = get_field_events_keyboard
       /\ pressed("type", "SELECT_DISCIPLINE") =>
             /\ chat.state[u] = "SELECT_TYPE"
             /\ chat.keyboard[u] = get_event_type_keyboard

====
